---- MODULE Spec2Model ----
(***************************************************************************)
(* Verification model of the bnf_stock screening strategies:               *)
(*   - the position simulators (backtest_stocks) of align_momentum,        *)
(*     momentum_trend, bollinger_volume and macd_rsi_separation;           *)
(*   - the per-instrument scan loops of the screening runs.                *)
(*                                                                         *)
(* Units.  Position fractions are counted in halves of the position        *)
(* (1.0 -> 2, 0.5 -> 1, 0.0 -> 0; all three are exact binary floats).      *)
(* Returns are kept exact as  sum(halves * (price - entry)),  i.e. the     *)
(* source's percentage times entry/50, so no division is needed.           *)
(* Dates are day numbers: the bar at index i of a series is dated i + 1.   *)
(***************************************************************************)
EXTENDS Integers, Sequences, FiniteSets, TLC

VARIABLES
    strategy,             \* which program runs
    single_profit_cut,    \* momentum_trend --single-profit-cut
    results,              \* the signal records handed to backtest_stocks
    trading_days,         \* per code: the instrument's bars (compact view)
    pc,                   \* position of the running function
    cur,                  \* 1-based index of the signal being processed
    sim,                  \* loop-local state of the signal being simulated
    backtested_results,   \* what backtest_stocks returns
    start_date,           \* scan window (None when not given)
    end_date,
    debug,                \* diagnostics switch of the screening run
    stock_codes,          \* the universe the screening run iterates
    selected_stocks,      \* the signal records of the screening run
    debug_stats,          \* the diagnostic counters
    args,                 \* the arguments of an indicator or condition call
    ret                   \* what the call returned

scanVars == <<start_date, end_date, debug, stock_codes, selected_stocks, debug_stats>>
simVars  == <<single_profit_cut, results, sim, backtested_results>>
calcVars == <<args, ret>>

vars == <<strategy, single_profit_cut, results, trading_days, pc, cur, sim,
          backtested_results, start_date, end_date, debug, stock_codes,
          selected_stocks, debug_stats, args, ret>>

-----------------------------------------------------------------------------
(* Values *)

None == -1                \* Python None for a number or a date
NoReason == "None"        \* Python None for exit_reason / sell_reason

Full == 2                 \* remaining_position = 1.0
Half == 1                 \* remaining_position = 0.5
Flat == 0                 \* remaining_position = 0.0

MinLookback == 120        \* smallest index a signal can have

MaxTail == 2              \* most bars a series holds after the signal bar

Tiered == {"align_momentum", "momentum_trend"}
Simple == {"bollinger_volume", "macd_rsi_separation"}
Strategies == Tiered \cup Simple

Codes == {"A", "B"}

\* 'date' of the bar at index i of a series
DateOf(i) == i + 1

-----------------------------------------------------------------------------
(* Bars after the signal bar *)

OpenVals  == {900, 1000}
LowVals   == {900, 1000}
HighVals  == {1100, 1150, 1250}
CloseVals == {1000, 1100}

TradedBars ==
    {b \in [open : OpenVals, high : HighVals, low : LowVals, close : CloseVals] :
        /\ b.low <= b.open /\ b.open <= b.high
        /\ b.low <= b.close /\ b.close <= b.high}

\* a trading halt is reported with open = high = low = 0 and the last close
HaltedBar  == [open |-> 0, high |-> 0, low |-> 0, close |-> 1000]
\* a record whose open is null
NoOpenBar  == [open |-> None, high |-> 1100, low |-> 1000, close |-> 1100]
QuietBar   == [open |-> 1000, high |-> 1100, low |-> 1000, close |-> 1100]

Bars == TradedBars \cup {HaltedBar, NoOpenBar}

Tails(n) == UNION {[1..m -> Bars] : m \in 0..n}

\* the series of the second instrument are drawn from this short list
FixedTails == {<<>>, <<HaltedBar>>, <<QuietBar>>}

\* the signal bar itself sits at this index of every series of the simulator runs
SignalIdx == MinLookback

\* The simulators never read a bar at or before the signal index, so a series
\* is held as its tail ts = timeseries[SignalIdx + 1:].
\* len(timeseries) and timeseries[i] for i > SignalIdx:
TsLen(ts) == SignalIdx + 1 + Len(ts)
BarAt(ts, i) == ts[i - SignalIdx]

\* DataLoader.get_stock_timeseries(trading_days, stock_code)
Timeseries(code) == trading_days[code].tail

-----------------------------------------------------------------------------
(* Signal records *)

\* int(entry_price * 0.92), int(entry_price * 1.13), int(entry_price * 1.21):
\* percentages of the signal bar's close, truncated
PctOf(price, pct) == (price * pct) \div 100

SignalClose == 1000       \* closes[signal_index] in the simulator runs
SupportLow  == 920        \* lowest low of the look-back window

TieredSignal(code, name, i, close) ==
    [code |-> code, name |-> name, signal_index |-> i, signal_date |-> DateOf(i),
     entry_price |-> close,
     stop_loss |-> PctOf(close, 92),
     take_profit_1 |-> PctOf(close, 113),
     take_profit_2 |-> PctOf(close, 121),
     take_profit |-> None]

SimpleSignal(code, name, i, close, support_low) ==
    [code |-> code, name |-> name, signal_index |-> i, signal_date |-> DateOf(i),
     entry_price |-> close,
     stop_loss |-> support_low,
     take_profit_1 |-> None,
     take_profit_2 |-> None,
     take_profit |-> close + (close - support_low) * 2]

SignalFor(s, code) ==
    IF s \in Tiered THEN TieredSignal(code, "n1", SignalIdx, SignalClose)
    ELSE SimpleSignal(code, "n1", SignalIdx, SignalClose, SupportLow)

-----------------------------------------------------------------------------
(* backtest_stocks of align_momentum and momentum_trend: tiered exits *)

Idle == [i |-> None]
NoStats == [total_checked |-> 0]
NoCall == <<>>

TieredEntry(sig, ts) ==
    [code |-> sig.code,
     i |-> sig.signal_index + 1,
     entry_price |-> BarAt(ts, sig.signal_index + 1).open,
     remaining_position |-> Full,
     total_profit |-> 0,
     exit_date |-> None,
     exit_reason |-> NoReason,
     first_exit_date |-> None,
     first_exit_reason |-> NoReason,
     broke |-> FALSE,
     realized |-> <<>>]

Realize(st, halves, price, kind) ==
    [st EXCEPT !.total_profit = @ + halves * (price - st.entry_price),
               !.realized = Append(@, [bar |-> st.i, halves |-> halves,
                                        price |-> price, kind |-> kind])]

FirstExit(st, date, reason) ==
    IF st.first_exit_date = None
    THEN [st EXCEPT !.first_exit_date = date, !.first_exit_reason = reason]
    ELSE st

\* a stop-loss that realizes the position but does not leave the loop
StopLossHitNoBreak(st, date, sig) ==
    [Realize(st, st.remaining_position, sig.stop_loss, "stop_loss")
        EXCEPT !.exit_date = date, !.exit_reason = "stop_loss",
               !.remaining_position = Flat]

\* a stop-loss applied to the whole position, tier-1 half included
StopLossHitWholePosition(st, date, sig) ==
    [Realize(st, Full, sig.stop_loss, "stop_loss")
        EXCEPT !.exit_date = date, !.exit_reason = "stop_loss",
               !.remaining_position = Flat, !.broke = TRUE]

StopLossHit(st, date, sig) ==
    [Realize(st, st.remaining_position, sig.stop_loss, "stop_loss")
        EXCEPT !.exit_date = date, !.exit_reason = "stop_loss",
               !.remaining_position = Flat, !.broke = TRUE]

\* a tier-1 exit that books its half but leaves the position at 1.0
Tier1HitKeepsPosition(st, sig) ==
    Realize(st, Half, sig.take_profit_1, "take_profit_1")

Tier1Hit(st, sig) ==
    [Realize(st, Half, sig.take_profit_1, "take_profit_1")
        EXCEPT !.remaining_position = Half]

\* a tier-2 exit booked at the tier-1 price
Tier2HitAtTier1Price(st, date, sig) ==
    [Realize(st, Half, sig.take_profit_1, "take_profit_2")
        EXCEPT !.exit_date = date, !.exit_reason = "take_profit_2",
               !.remaining_position = Flat, !.broke = TRUE]

Tier2Hit(st, date, sig) ==
    [Realize(st, Half, sig.take_profit_2, "take_profit_2")
        EXCEPT !.exit_date = date, !.exit_reason = "take_profit_2",
               !.remaining_position = Flat, !.broke = TRUE]

SingleTierHit(st, date, sig) ==
    [Realize(st, Full, sig.take_profit_2, "take_profit_2")
        EXCEPT !.exit_date = date, !.exit_reason = "take_profit_2",
               !.remaining_position = Flat, !.broke = TRUE]

\* the loop body with the take-profit tiers tested before the stop-loss
AlignBarStepProfitFirst(st, day, date, sig) ==
    LET s1 == IF st.remaining_position = Full /\ day.high >= sig.take_profit_1
              THEN [Realize(st, Half, sig.take_profit_1, "take_profit_1")
                       EXCEPT !.remaining_position = Half]
              ELSE st
    IN  IF s1.remaining_position = Half /\ day.high >= sig.take_profit_2
        THEN [Realize(s1, Half, sig.take_profit_2, "take_profit_2")
                 EXCEPT !.exit_date = date, !.exit_reason = "take_profit_2",
                        !.remaining_position = Flat, !.broke = TRUE]
        ELSE IF day.low <= sig.stop_loss
             THEN [Realize(s1, s1.remaining_position, sig.stop_loss, "stop_loss")
                      EXCEPT !.exit_date = date, !.exit_reason = "stop_loss",
                             !.remaining_position = Flat, !.broke = TRUE]
             ELSE s1

\* the loop body of align_momentum.backtest_stocks
AlignBarStep(st, day, date, sig) ==
    IF day.low <= sig.stop_loss
    THEN StopLossHit(st, date, sig)
    ELSE LET s1 == IF st.remaining_position = Full /\ day.high >= sig.take_profit_1
                   THEN Tier1Hit(st, sig)
                   ELSE st
         IN  IF s1.remaining_position = Half /\ day.high >= sig.take_profit_2
             THEN Tier2Hit(s1, date, sig)
             ELSE s1

\* the loop body of momentum_trend.backtest_stocks
MomentumBarStep(st, day, date, sig, single) ==
    IF day.low <= sig.stop_loss
    THEN FirstExit(StopLossHit(st, date, sig), date, "stop_loss")
    ELSE IF single
         THEN IF st.remaining_position = Full /\ day.high >= sig.take_profit_2
              THEN FirstExit(SingleTierHit(st, date, sig), date, "take_profit_2")
              ELSE st
         ELSE LET s1 == IF st.remaining_position = Full /\ day.high >= sig.take_profit_1
                        THEN FirstExit(Tier1Hit(st, sig), date, "take_profit_1")
                        ELSE st
              IN  IF s1.remaining_position = Half /\ day.high >= sig.take_profit_2
                  THEN Tier2Hit(s1, date, sig)
                  ELSE s1

\* a loop body that realizes at most one tier on a bar
TieredBarStepOneTierPerBar(s, st, day, date, sig, single) ==
    IF day.low <= sig.stop_loss
    THEN FirstExit(StopLossHit(st, date, sig), date, "stop_loss")
    ELSE IF st.remaining_position = Full /\ day.high >= sig.take_profit_1 /\ ~single
         THEN FirstExit(Tier1Hit(st, sig), date, "take_profit_1")
         ELSE IF s = "align_momentum"
              THEN AlignBarStep(st, day, date, sig)
              ELSE MomentumBarStep(st, day, date, sig, single)

TieredBarStep(s, st, day, date, sig, single) ==
    IF s = "align_momentum"
    THEN AlignBarStep(st, day, date, sig)
    ELSE MomentumBarStep(st, day, date, sig, single)

\* for i in range(signal_idx + 1, len(timeseries)): one pass of the body,
\* then the next index unless the body left the loop
TieredAdvance(s, st, sig, ts, single) ==
    LET new == TieredBarStep(s, st, BarAt(ts, st.i), DateOf(st.i), sig, single)
    IN  IF new.broke THEN new ELSE [new EXCEPT !.i = @ + 1]

\* the end-of-data handling with the two holding labels exchanged
TieredSettleLabelsSwapped(st, ts) ==
    IF st.remaining_position > 0
    THEN LET last == TsLen(ts) - 1
         IN  [Realize([st EXCEPT !.i = last], st.remaining_position,
                      BarAt(ts, last).close, "holding")
                 EXCEPT !.i = st.i,
                        !.exit_date = DateOf(last),
                        !.exit_reason = IF st.remaining_position = Half
                                        THEN "holding_100" ELSE "holding_50"]
    ELSE st

\* "remaining position" handling after the loop
TieredSettle(st, ts) ==
    IF st.remaining_position > 0
    THEN LET last == TsLen(ts) - 1
         IN  [Realize([st EXCEPT !.i = last], st.remaining_position,
                      BarAt(ts, last).close, "holding")
                 EXCEPT !.i = st.i,
                        !.exit_date = DateOf(last),
                        !.exit_reason = IF st.remaining_position = Full
                                        THEN "holding_100" ELSE "holding_50"]
    ELSE st

\* backtested_stock['backtest']
TieredResult(s, st, sig) ==
    [code |-> sig.code,
     entry_price |-> st.entry_price,
     entry_date |-> DateOf(sig.signal_index + 1),
     exit_date |-> st.exit_date,
     exit_reason |-> st.exit_reason,
     profit_rate |-> st.total_profit,
     first_exit_date |-> IF s = "align_momentum" THEN None
                         ELSE IF st.first_exit_date # None THEN st.first_exit_date
                         ELSE st.exit_date,
     first_exit_reason |-> IF s = "align_momentum" THEN NoReason
                           ELSE IF st.first_exit_reason # NoReason THEN st.first_exit_reason
                           ELSE st.exit_reason]

\* if signal_idx + 1 >= len(timeseries): continue
\* if not entry_price or entry_price == 0: continue
TieredSkips(sig, ts) ==
    \/ sig.signal_index + 1 >= TsLen(ts)
    \/ BarAt(ts, sig.signal_index + 1).open \in {None, 0}

TieredStart ==
    /\ pc = "signal"
    /\ strategy \in Tiered
    /\ cur <= Len(results)
    /\ IF TieredSkips(results[cur], Timeseries(results[cur].code))
       THEN /\ cur' = cur + 1
            /\ UNCHANGED <<pc, sim>>
       ELSE /\ sim' = TieredEntry(results[cur], Timeseries(results[cur].code))
            /\ pc' = "bars"
            /\ UNCHANGED cur
    /\ UNCHANGED <<strategy, single_profit_cut, results, trading_days,
                   backtested_results>>
    /\ UNCHANGED <<scanVars, calcVars>>

TieredBar ==
    /\ pc = "bars"
    /\ strategy \in Tiered
    /\ ~sim.broke
    /\ sim.i < TsLen(Timeseries(results[cur].code))
    /\ sim' = TieredAdvance(strategy, sim, results[cur],
                            Timeseries(results[cur].code), single_profit_cut)
    /\ UNCHANGED <<strategy, single_profit_cut, results, trading_days, pc, cur,
                   backtested_results>>
    /\ UNCHANGED <<scanVars, calcVars>>

TieredFinish ==
    /\ pc = "bars"
    /\ strategy \in Tiered
    /\ sim.broke \/ sim.i >= TsLen(Timeseries(results[cur].code))
    /\ LET st == TieredSettle(sim, Timeseries(results[cur].code))
       IN  /\ sim' = st
           /\ backtested_results' =
                 Append(backtested_results, TieredResult(strategy, st, results[cur]))
    /\ cur' = cur + 1
    /\ pc' = "signal"
    /\ UNCHANGED <<strategy, single_profit_cut, results, trading_days>>
    /\ UNCHANGED <<scanVars, calcVars>>

-----------------------------------------------------------------------------
(* backtest_stocks of bollinger_volume and macd_rsi_separation: one exit *)

SellStop == "sonjeol"     \* '손절'
SellTake == "ikjeol"      \* '익절'
SellHold == "holding"     \* '홀딩'

\* signal_index = next(i for i, d in enumerate(stock_data) if d['date'] == signal_date)
SimpleSkips(sig, ts) == sig.signal_index >= TsLen(ts) - 1

SimpleEntry(sig, ts) ==
    [code |-> sig.code,
     i |-> sig.signal_index + 1,
     buy_price |-> BarAt(ts, sig.signal_index + 1).open,
     buy_date |-> DateOf(sig.signal_index + 1),
     sell_date |-> None,
     sell_price |-> None,
     sell_reason |-> NoReason,
     broke |-> FALSE]

SimpleBarStep(st, day, date, sig) ==
    IF day.low <= sig.stop_loss
    THEN [st EXCEPT !.sell_date = date, !.sell_price = sig.stop_loss,
                    !.sell_reason = SellStop, !.broke = TRUE]
    ELSE IF day.high >= sig.take_profit
         THEN [st EXCEPT !.sell_date = date, !.sell_price = sig.take_profit,
                         !.sell_reason = SellTake, !.broke = TRUE]
         ELSE st

SimpleAdvance(st, sig, ts) ==
    LET new == SimpleBarStep(st, BarAt(ts, st.i), DateOf(st.i), sig)
    IN  IF new.broke THEN new ELSE [new EXCEPT !.i = @ + 1]

SimpleSettle(st, ts) ==
    IF st.sell_date = None
    THEN LET last == TsLen(ts) - 1
         IN  [st EXCEPT !.sell_date = DateOf(last),
                        !.sell_price = BarAt(ts, last).close,
                        !.sell_reason = SellHold]
    ELSE st

\* profit_rate = ((sell_price - buy_price) / buy_price) * 100 if buy_price != 0 else 0
SimpleResult(st, sig) ==
    [code |-> sig.code,
     buy_date |-> st.buy_date,
     buy_price |-> st.buy_price,
     sell_date |-> st.sell_date,
     sell_price |-> st.sell_price,
     sell_reason |-> st.sell_reason,
     profit_rate |-> IF st.buy_price # 0 THEN Full * (st.sell_price - st.buy_price) ELSE 0]

SimpleStart ==
    /\ pc = "signal"
    /\ strategy \in Simple
    /\ cur <= Len(results)
    /\ IF SimpleSkips(results[cur], Timeseries(results[cur].code))
       THEN /\ cur' = cur + 1
            /\ UNCHANGED <<pc, sim>>
       ELSE /\ sim' = SimpleEntry(results[cur], Timeseries(results[cur].code))
            /\ pc' = "bars"
            /\ UNCHANGED cur
    /\ UNCHANGED <<strategy, single_profit_cut, results, trading_days,
                   backtested_results>>
    /\ UNCHANGED <<scanVars, calcVars>>

SimpleBar ==
    /\ pc = "bars"
    /\ strategy \in Simple
    /\ ~sim.broke
    /\ sim.i < TsLen(Timeseries(results[cur].code))
    /\ sim' = SimpleAdvance(sim, results[cur], Timeseries(results[cur].code))
    /\ UNCHANGED <<strategy, single_profit_cut, results, trading_days, pc, cur,
                   backtested_results>>
    /\ UNCHANGED <<scanVars, calcVars>>

\* a null buy_price makes the subtraction raise TypeError: the run dies and
\* returns nothing
SimpleFinish ==
    /\ pc = "bars"
    /\ strategy \in Simple
    /\ sim.broke \/ sim.i >= TsLen(Timeseries(results[cur].code))
    /\ LET st == SimpleSettle(sim, Timeseries(results[cur].code))
       IN  IF st.buy_price = None
           THEN /\ pc' = "crashed"
                /\ sim' = st
                /\ UNCHANGED <<cur, backtested_results>>
           ELSE /\ sim' = st
                /\ backtested_results' =
                      Append(backtested_results, SimpleResult(st, results[cur]))
                /\ cur' = cur + 1
                /\ pc' = "signal"
    /\ UNCHANGED <<strategy, single_profit_cut, results, trading_days>>
    /\ UNCHANGED <<scanVars, calcVars>>

\* return backtested_results
BacktestReturn ==
    /\ pc = "signal"
    /\ cur > Len(results)
    /\ pc' = "done"
    /\ UNCHANGED <<strategy, single_profit_cut, results, trading_days, cur, sim,
                   backtested_results>>
    /\ UNCHANGED <<scanVars, calcVars>>

-----------------------------------------------------------------------------
(* Simulator runs *)

SeriesOf(tailA, tailB) ==
    [c \in Codes |-> [tail |-> IF c = "A" THEN tailA ELSE tailB]]

Init ==
    /\ strategy \in Strategies
    /\ single_profit_cut \in BOOLEAN
    /\ single_profit_cut => strategy = "momentum_trend"
    /\ \E tailA \in Tails(MaxTail), tailB \in FixedTails :
          trading_days = SeriesOf(tailA, tailB)
    /\ results \in {<<SignalFor(strategy, "A")>>,
                    <<SignalFor(strategy, "B"), SignalFor(strategy, "A")>>,
                    <<SignalFor(strategy, "A"), SignalFor(strategy, "B")>>}
    /\ pc = "signal"
    /\ cur = 1
    /\ sim = Idle
    /\ backtested_results = <<>>
    /\ start_date = None
    /\ end_date = None
    /\ debug = FALSE
    /\ stock_codes = <<>>
    /\ selected_stocks = <<>>
    /\ debug_stats = NoStats
    /\ args = NoCall
    /\ ret = NoCall

Next ==
    \/ TieredStart
    \/ TieredBar
    \/ TieredFinish
    \/ SimpleStart
    \/ SimpleBar
    \/ SimpleFinish
    \/ BacktestReturn

Spec == Init /\ [][Next]_vars

-----------------------------------------------------------------------------
(* Screening runs: find_align_momentum_stocks, find_momentum_trend_stocks,   *)
(* find_bollinger_volume_stocks                                              *)
(*                                                                           *)
(* A series is held by its length and by what the strategy's conditions give *)
(* at each index.  reach[i] is the number of leading conditions that hold at *)
(* index i (for bollinger_volume: of the five conditions other than the band *)
(* touch); indices outside DOMAIN reach give 0.  low_touch and close_touch   *)
(* are the indices j with lows[j] <= bb_lower[j] and with                    *)
(* closes[j] <= bb_lower[j] * 1.01.  names lists, in time order, the names   *)
(* the code is reported under.                                               *)

MinHistory == 150         \* shorter series are not scanned

MaxExtraBars == 0         \* series hold up to MinHistory + MaxExtraBars bars
HotSpan == 1              \* conditions vary on MinLookback-1 .. MinLookback+HotSpan

Scanners == {"align_momentum", "momentum_trend", "bollinger_volume"}

\* number of stages of _check_strategy_conditions
NStages(s) == IF s = "momentum_trend" THEN 4 ELSE 6
\* number of conditions given by reach
NConds(s) == IF s = "bollinger_volume" THEN 5 ELSE NStages(s)

HotIdx == (MinLookback - 1)..(MinLookback + HotSpan)
TouchIdx == {MinLookback - 3, MinLookback}
SeriesLens == (MinHistory - 1)..(MinHistory + MaxExtraBars)

\* a date after the last bar of every series
FarDate == DateOf(MinHistory + MaxExtraBars) + 1
DateChoices == {None, DateOf(MinLookback), DateOf(MinLookback + 1), FarDate}

Min(S) == CHOOSE x \in S : \A y \in S : x <= y
Max(S) == CHOOSE x \in S : \A y \in S : x >= y

\* for i, t in enumerate(timeseries): if t['date'] >= start_date: ...; break
FirstOnOrAfter(len, date) ==
    LET S == {i \in 0..(len - 1) : DateOf(i) >= date}
    IN  IF S = {} THEN None ELSE Min(S)

\* for i, t in enumerate(timeseries): if t['date'] > end_date: ...; break
FirstAfter(len, date) ==
    LET S == {i \in 0..(len - 1) : DateOf(i) > date}
    IN  IF S = {} THEN None ELSE Min(S)

\* search_start_idx of find_align_momentum_stocks
AlignSearchStart(len, sd) ==
    IF sd = None \/ FirstOnOrAfter(len, sd) = None
    THEN MinLookback
    ELSE IF FirstOnOrAfter(len, sd) > MinLookback
         THEN FirstOnOrAfter(len, sd) ELSE MinLookback

\* search_start_idx of find_momentum_trend_stocks / find_bollinger_volume_stocks
PlainSearchStart(len, sd) ==
    IF sd = None \/ FirstOnOrAfter(len, sd) = None
    THEN 0
    ELSE FirstOnOrAfter(len, sd)

SearchStart(s, len, sd) ==
    IF s = "align_momentum" THEN AlignSearchStart(len, sd)
    ELSE PlainSearchStart(len, sd)

\* search_end_idx, the same in the three strategies
SearchEnd(len, ed) ==
    IF ed = None \/ FirstAfter(len, ed) = None
    THEN len
    ELSE FirstAfter(len, ed)

CondsAt(d, idx) == IF idx \in DOMAIN d.reach THEN d.reach[idx] ELSE 0

\* the check without its test of the index against the lookback
ForwardCheckNoLookback(s, d, idx) ==
    IF idx >= d.len
    THEN [passed |-> FALSE, stage |-> 0]
    ELSE [passed |-> CondsAt(d, idx) = NStages(s), stage |-> CondsAt(d, idx)]

\* _check_strategy_conditions of align_momentum and of momentum_trend
ForwardCheck(s, d, idx) ==
    IF idx < MinLookback \/ idx >= d.len
    THEN [passed |-> FALSE, stage |-> 0]
    ELSE [passed |-> CondsAt(d, idx) = NStages(s), stage |-> CondsAt(d, idx)]

\* range(max(0, idx - n), idx + 1)
WindowFrom(idx, n) == (IF idx - n > 0 THEN idx - n ELSE 0)..idx
WindowOf(idx) == (IF idx - 3 > 0 THEN idx - 3 ELSE 0)..idx

\* stage 2 of bollinger_volume: a low at or under the lower band within 3 bars
BbTouched(d, idx) == \E j \in WindowOf(idx) : j \in d.low_touch

\* _check_strategy_conditions of bollinger_volume
BollingerCheck(d, idx) ==
    IF idx < MinLookback \/ idx >= d.len
    THEN [passed |-> FALSE, stage |-> 0]
    ELSE IF CondsAt(d, idx) = 0 THEN [passed |-> FALSE, stage |-> 0]
    ELSE IF ~BbTouched(d, idx) THEN [passed |-> FALSE, stage |-> 1]
    ELSE [passed |-> CondsAt(d, idx) = 5, stage |-> CondsAt(d, idx) + 1]

\* _find_bb_lower_touch: first bar of the window closing within 1% of the band
FindBbLowerTouch(d, idx) ==
    LET S == {j \in WindowOf(idx) : j \in d.close_touch}
    IN  IF S = {} THEN None ELSE Min(S)

Check(s, d, idx) ==
    IF s = "bollinger_volume" THEN BollingerCheck(d, idx) ELSE ForwardCheck(s, d, idx)

ZeroStats(s) ==
    [total_checked |-> 0, stage_pass |-> [k \in 1..NStages(s) |-> 0], all_passed |-> 0]

\* if debug and stage > 0: debug_stats[...] += 1
Count(stats, dbg, r) ==
    IF dbg /\ r.stage > 0
    THEN [total_checked |-> stats.total_checked + 1,
          stage_pass |-> [k \in DOMAIN stats.stage_pass |->
                             stats.stage_pass[k] + IF r.stage >= k THEN 1 ELSE 0],
          all_passed |-> stats.all_passed + IF r.passed THEN 1 ELSE 0]
    ELSE stats

\* The loops are unfolded by halves: a loop over [i, end) is the loop over the
\* first half of the range followed, unless that one left by break, by the loop
\* over the second half; a range of one index is one pass of the loop body.

\* a forward scan that stops at the first index reaching any stage
RECURSIVE ForwardScanStopsAtAnyStage(_, _, _, _, _, _, _)
ForwardScanStopsAtAnyStage(s, d, i, end, dbg, stats, hit) ==
    IF i >= end \/ hit # None
    THEN [hit |-> hit, stats |-> stats]
    ELSE IF end = i + 1
    THEN LET r == ForwardCheck(s, d, i)
         IN  [hit |-> IF r.stage > 0 THEN i ELSE None, stats |-> Count(stats, dbg, r)]
    ELSE LET mid  == (i + end) \div 2
             left == ForwardScanStopsAtAnyStage(s, d, i, mid, dbg, stats, hit)
         IN  ForwardScanStopsAtAnyStage(s, d, mid, end, dbg, left.stats, left.hit)

\* a forward scan that, with diagnostics on, stops at the first counted index
RECURSIVE ForwardScanDebugStopsWhenCounted(_, _, _, _, _, _, _)
ForwardScanDebugStopsWhenCounted(s, d, i, end, dbg, stats, hit) ==
    IF i >= end \/ hit # None
    THEN [hit |-> hit, stats |-> stats]
    ELSE IF end = i + 1
    THEN LET r == ForwardCheck(s, d, i)
         IN  [hit |-> IF r.passed \/ (dbg /\ r.stage > 0) THEN i ELSE None,
              stats |-> Count(stats, dbg, r)]
    ELSE LET mid  == (i + end) \div 2
             left == ForwardScanDebugStopsWhenCounted(s, d, i, mid, dbg, stats, hit)
         IN  ForwardScanDebugStopsWhenCounted(s, d, mid, end, dbg, left.stats, left.hit)

\* for i in range(search_start_idx, search_end_idx): ... if passed: ...; break
\* (hit is None until the loop has left by break)
RECURSIVE ForwardScan(_, _, _, _, _, _, _)
ForwardScan(s, d, i, end, dbg, stats, hit) ==
    IF i >= end \/ hit # None
    THEN [hit |-> hit, stats |-> stats]
    ELSE IF end = i + 1
    THEN LET r == ForwardCheck(s, d, i)
         IN  [hit |-> IF r.passed THEN i ELSE None, stats |-> Count(stats, dbg, r)]
    ELSE LET mid  == (i + end) \div 2
             left == ForwardScan(s, d, i, mid, dbg, stats, hit)
         IN  ForwardScan(s, d, mid, end, dbg, left.stats, left.hit)

\* the passes of the backward loop for the indices hi-1, hi-2, ..., lo
\*     if passed: if bb_touch_idx is None: continue; ...; break
RECURSIVE BackwardRange(_, _, _, _, _)
BackwardRange(d, lo, hi, dbg, acc) ==
    IF lo >= hi \/ acc.hit # None
    THEN acc
    ELSE IF hi = lo + 1
    THEN LET r == BollingerCheck(d, lo)
             touch == FindBbLowerTouch(d, lo)
         IN  [hit |-> IF r.passed /\ touch # None THEN lo ELSE None,
              touch |-> IF r.passed THEN touch ELSE None,
              stats |-> Count(acc.stats, dbg, r)]
    ELSE LET mid   == (lo + hi) \div 2
             upper == BackwardRange(d, mid, hi, dbg, acc)
         IN  BackwardRange(d, lo, mid, dbg, upper)

\* for i in range(search_end_idx - 1, search_start_idx - 1, -1): ...
BackwardScan(d, i, start, dbg, stats) ==
    BackwardRange(d, start, i + 1, dbg, [hit |-> None, touch |-> None, stats |-> stats])

BollingerSignal(code, name, i, touch) ==
    [code |-> code, name |-> name, signal_index |-> i, signal_date |-> DateOf(i),
     bb_touch_index |-> touch, bb_touch_date |-> DateOf(touch),
     entry_price |-> SignalClose,
     stop_loss |-> SupportLow,
     take_profit |-> SignalClose + (SignalClose - SupportLow) * 2]

\* sorted(stock_codes) of find_align_momentum_stocks: every (code, name) pair
\* seen on a non-holiday day
AllPairs == <<[code |-> "A", name |-> "n1"], [code |-> "A", name |-> "n2"],
              [code |-> "B", name |-> "n1"], [code |-> "B", name |-> "n2"]>>
Listed(td, e) == \E k \in 1..Len(td[e.code].names) : td[e.code].names[k] = e.name
AlignUniverse(td) == SelectSeq(AllPairs, LAMBDA e : Listed(td, e))

\* _get_all_stock_codes: the codes and names of the latest trading day
LastDay(td) == Max({td[c].len : c \in Codes})
OnLastDay(td, e) ==
    /\ td[e.code].len = LastDay(td)
    /\ td[e.code].names[Len(td[e.code].names)] = e.name
LatestUniverse(td) == SelectSeq(AllPairs, LAMBDA e : OnLastDay(td, e))

Universe(s, td) == IF s = "align_momentum" THEN AlignUniverse(td) ELSE LatestUniverse(td)

\* the body of the per-instrument loop of find_align_momentum_stocks and of
\* find_momentum_trend_stocks: what it leaves in selected_stocks and debug_stats
ForwardInstrument(s, e, d, sd, ed, dbg, selected, stats) ==
    IF d.len < MinHistory
    THEN [selected |-> selected, stats |-> stats]
    ELSE LET r == ForwardScan(s, d, SearchStart(s, d.len, sd), SearchEnd(d.len, ed),
                              dbg, stats, None)
         IN  [selected |-> IF r.hit = None THEN selected
                           ELSE Append(selected,
                                       TieredSignal(e.code, e.name, r.hit, SignalClose)),
              stats |-> r.stats]

\* one instrument of find_align_momentum_stocks
ScanAlign ==
    /\ pc = "scan"
    /\ strategy = "align_momentum"
    /\ cur <= Len(stock_codes)
    /\ LET e == stock_codes[cur]
           r == ForwardInstrument(strategy, e, trading_days[e.code], start_date,
                                  end_date, debug, selected_stocks, debug_stats)
       IN  /\ selected_stocks' = r.selected
           /\ debug_stats' = r.stats
    /\ cur' = cur + 1
    /\ UNCHANGED <<strategy, trading_days, pc, start_date, end_date, debug, stock_codes>>
    /\ UNCHANGED <<simVars, calcVars>>

\* one instrument of find_momentum_trend_stocks
ScanMomentum ==
    /\ pc = "scan"
    /\ strategy = "momentum_trend"
    /\ cur <= Len(stock_codes)
    /\ LET e == stock_codes[cur]
           r == ForwardInstrument(strategy, e, trading_days[e.code], start_date,
                                  end_date, debug, selected_stocks, debug_stats)
       IN  /\ selected_stocks' = r.selected
           /\ debug_stats' = r.stats
    /\ cur' = cur + 1
    /\ UNCHANGED <<strategy, trading_days, pc, start_date, end_date, debug, stock_codes>>
    /\ UNCHANGED <<simVars, calcVars>>

\* the body of the per-instrument loop of find_bollinger_volume_stocks
BollingerInstrument(e, d, sd, ed, dbg, selected, stats) ==
    IF d.len < MinHistory
    THEN [selected |-> selected, stats |-> stats]
    ELSE LET r == BackwardScan(d, SearchEnd(d.len, ed) - 1,
                               SearchStart("bollinger_volume", d.len, sd), dbg, stats)
         IN  [selected |-> IF r.hit = None THEN selected
                           ELSE Append(selected,
                                       BollingerSignal(e.code, e.name, r.hit, r.touch)),
              stats |-> r.stats]

\* one instrument of find_bollinger_volume_stocks
ScanBollinger ==
    /\ pc = "scan"
    /\ strategy = "bollinger_volume"
    /\ cur <= Len(stock_codes)
    /\ LET e == stock_codes[cur]
           r == BollingerInstrument(e, trading_days[e.code], start_date, end_date,
                                    debug, selected_stocks, debug_stats)
       IN  /\ selected_stocks' = r.selected
           /\ debug_stats' = r.stats
    /\ cur' = cur + 1
    /\ UNCHANGED <<strategy, trading_days, pc, start_date, end_date, debug, stock_codes>>
    /\ UNCHANGED <<simVars, calcVars>>

\* return selected_stocks
ScanReturn ==
    /\ pc = "scan"
    /\ cur > Len(stock_codes)
    /\ pc' = "done"
    /\ UNCHANGED <<strategy, trading_days, cur>>
    /\ UNCHANGED scanVars
    /\ UNCHANGED <<simVars, calcVars>>

\* the series of instrument A vary; instrument B has a full history whose
\* conditions all hold at MinLookback
SeriesB(s) ==
    [len |-> MinHistory, names |-> <<"n1">>,
     reach |-> [i \in HotIdx |-> IF i = MinLookback THEN NConds(s) ELSE 0],
     low_touch |-> {MinLookback}, close_touch |-> {MinLookback}]

SeriesA(s) ==
    {d \in [len : SeriesLens,
            names : {<<"n1">>, <<"n1", "n2">>},
            reach : [HotIdx -> {0, 1, NConds(s)}],
            low_touch : SUBSET TouchIdx,
            close_touch : SUBSET TouchIdx] :
        /\ d.reach[MinLookback - 1] \in {0, NConds(s)}
        /\ s # "align_momentum" => d.names = <<"n1">>
        /\ s # "bollinger_volume" => d.low_touch = {} /\ d.close_touch = {}}

InitScan ==
    /\ strategy \in Scanners
    /\ \E a \in SeriesA(strategy) :
          trading_days = [c \in Codes |-> IF c = "A" THEN a ELSE SeriesB(strategy)]
    /\ start_date \in DateChoices
    /\ end_date \in DateChoices
    /\ debug \in BOOLEAN
    /\ stock_codes = Universe(strategy, trading_days)
    /\ selected_stocks = <<>>
    /\ debug_stats = ZeroStats(strategy)
    /\ pc = "scan"
    /\ cur = 1
    /\ single_profit_cut = FALSE
    /\ results = <<>>
    /\ sim = Idle
    /\ backtested_results = <<>>
    /\ args = NoCall
    /\ ret = NoCall

NextScan ==
    \/ ScanAlign
    \/ ScanMomentum
    \/ ScanBollinger
    \/ ScanReturn

SpecScan == InitScan /\ [][NextScan]_vars

-----------------------------------------------------------------------------
(* find_bollinger_volume_stocks with the RSI recovery condition (stage 5)    *)
(* evaluated on the RSI values.  The RSI line is 50 up to a dip, holds the   *)
(* value `between` from the dip to a rise, and the value `after` from then   *)
(* on.  The four conditions before stage 5 and the MACD cross of stage 6     *)
(* hold at every index outside `blocked`; a close within 1% of the lower     *)
(* band is found for every index outside `no_touch`.                         *)

RsiPeriod == 14           \* calculate_rsi(closes, 14)
RsiWindow == 10           \* bars looked back for the lowest RSI
RsiOversold == 40         \* the lowest RSI has to be at or under this
RsiRise == 5              \* the current RSI has to exceed the lowest by this

\* len(rsi_line): calculate_rsi returns [None], one value for the first
\* `period` changes and one value for each further change
RsiLen(d) == d.len - RsiPeriod + 1

\* rsi_line[j]
RsiAt(d, j) ==
    IF j < d.dip THEN 50
    ELSE IF j = d.dip THEN d.v1
    ELSE IF j < d.rise THEN d.between
    ELSE IF j = d.rise THEN d.v2
    ELSE d.after

\* min_rsi_in_period
MinRsiInPeriod(d, idx) ==
    Min({RsiAt(d, j) : j \in {j \in WindowFrom(idx, RsiWindow) : j < RsiLen(d)}})

\* stage 5 with the oversold level of 30
RsiRecoveryBelow30(d, idx) ==
    /\ MinRsiInPeriod(d, idx) <= 30
    /\ RsiAt(d, idx) >= MinRsiInPeriod(d, idx) + RsiRise

\* stage 5: rsi_recovery
RsiRecovery(d, idx) ==
    /\ MinRsiInPeriod(d, idx) <= RsiOversold
    /\ RsiAt(d, idx) >= MinRsiInPeriod(d, idx) + RsiRise

\* _check_strategy_conditions of bollinger_volume
RecoveryCheck(d, idx) ==
    IF idx < MinLookback \/ idx >= RsiLen(d) \/ idx >= d.len
    THEN [passed |-> FALSE, stage |-> 0]
    ELSE IF idx \in d.blocked THEN [passed |-> FALSE, stage |-> 0]
    ELSE IF ~RsiRecovery(d, idx) THEN [passed |-> FALSE, stage |-> 4]
    ELSE [passed |-> TRUE, stage |-> 6]

\* _find_bb_lower_touch
RecoveryTouch(d, idx) == IF idx \in d.no_touch THEN None ELSE idx

\* the passes of the backward loop for the indices hi-1, hi-2, ..., lo
RECURSIVE RecoveryRange(_, _, _, _, _)
RecoveryRange(d, lo, hi, dbg, acc) ==
    IF lo >= hi \/ acc.hit # None
    THEN acc
    ELSE IF hi = lo + 1
    THEN LET r == RecoveryCheck(d, lo)
             touch == RecoveryTouch(d, lo)
         IN  [hit |-> IF r.passed /\ touch # None THEN lo ELSE None,
              touch |-> IF r.passed THEN touch ELSE None,
              stats |-> Count(acc.stats, dbg, r)]
    ELSE LET mid   == (lo + hi) \div 2
             upper == RecoveryRange(d, mid, hi, dbg, acc)
         IN  RecoveryRange(d, lo, mid, dbg, upper)

\* one instrument of find_bollinger_volume_stocks
ScanRecovery ==
    /\ pc = "scan"
    /\ strategy = "bollinger_volume"
    /\ cur <= Len(stock_codes)
    /\ LET e == stock_codes[cur]
           d == trading_days[e.code]
       IN  IF d.len < MinHistory
           THEN UNCHANGED <<selected_stocks, debug_stats>>
           ELSE LET r == RecoveryRange(d, SearchStart(strategy, d.len, start_date),
                                       SearchEnd(d.len, end_date), debug,
                                       [hit |-> None, touch |-> None, stats |-> debug_stats])
                IN  /\ debug_stats' = r.stats
                    /\ selected_stocks' =
                          IF r.hit = None THEN selected_stocks
                          ELSE Append(selected_stocks,
                                      BollingerSignal(e.code, e.name, r.hit, r.touch))
    /\ cur' = cur + 1
    /\ UNCHANGED <<strategy, trading_days, pc, start_date, end_date, debug, stock_codes>>
    /\ UNCHANGED <<simVars, calcVars>>

\* the RSI rises at one of these indices, 5 bars after the dip
RiseIdx == {45, MinLookback + 25}
RecoveryLens == {MinHistory - 1, MinHistory, MinHistory + 10}

RecoverySeries ==
    {d \in [len : RecoveryLens, names : {<<"n1">>},
            dip : {r - 5 : r \in RiseIdx}, rise : RiseIdx,
            v1 : {25, 35, 45}, between : {25, 50}, v2 : {27, 55}, after : {20, 50},
            blocked : SUBSET RiseIdx, no_touch : SUBSET RiseIdx] :
        /\ d.dip = d.rise - 5
        /\ d.blocked \subseteq {d.rise}
        /\ d.no_touch \subseteq {d.rise}
        /\ d.between = 25 => d.v1 = 25}

InitRecovery ==
    /\ strategy = "bollinger_volume"
    /\ \E a \in RecoverySeries :
          /\ trading_days = [c \in {"A"} |-> a]
          /\ start_date \in {None, DateOf(a.dip)}
          /\ end_date \in {None, DateOf(a.rise), DateOf(a.rise + 1)}
    /\ debug \in BOOLEAN
    /\ stock_codes = <<[code |-> "A", name |-> "n1"]>>
    /\ selected_stocks = <<>>
    /\ debug_stats = ZeroStats(strategy)
    /\ pc = "scan"
    /\ cur = 1
    /\ single_profit_cut = FALSE
    /\ results = <<>>
    /\ sim = Idle
    /\ backtested_results = <<>>
    /\ args = NoCall
    /\ ret = NoCall

NextRecovery ==
    \/ ScanRecovery
    \/ ScanReturn

SpecRecovery == InitRecovery /\ [][NextRecovery]_vars

-----------------------------------------------------------------------------
(* StockScreener._check_strategy_conditions of align_momentum, on the        *)
(* indicator values it reads at idx and idx-1.  An undefined value is None;  *)
(* Python raises TypeError when an order comparison gets None as an operand. *)

MaxUndefined == 1         \* most indicator values undefined at once

Ret(passed, stage) == [passed |-> passed, stage |-> stage, raised |-> FALSE]
TypeError == [passed |-> FALSE, stage |-> None, raised |-> TRUE]

Defined(S) == None \notin S

\* the values the indicator lists may hold at idx (and %K, %D at idx-1)
IndicatorValues ==
    [ma5 : {None, 40}, ma20 : {None, 30, 50}, ma60 : {None, 20, 35}, ma120 : {None, 10},
     vol_ma5 : {None, 100, 300}, vol_ma20 : {None, 200},
     stoch_k : {None, 50, 90}, stoch_d : {None, 40, 60, 85},
     stoch_k_prev : {None, 30, 45}, stoch_d_prev : {None, 40},
     adx : {None, 25, 30}, macd : {None, 1, 3}, signal : {None, 2},
     rsi : {None, 20, 50, 80}]

Undefined(v) == {f \in DOMAIN v : v[f] = None}

CheckIdx == {MinLookback - 1, MinLookback, MinLookback + 1}
CheckLens == {MinLookback + 1, MinHistory}

\* if idx < 120 / if idx >= len(...) / if None in [...] / if idx == 0 or ...:
\*     return False, stage
UpFrontGuard(idx, len, v) ==
    \/ idx < MinLookback
    \/ idx >= len
    \/ ~Defined({v.ma5, v.ma20, v.ma60, v.ma120, v.stoch_k, v.stoch_d, v.adx,
                 v.macd, v.signal, v.rsi})
    \/ idx = 0 \/ v.stoch_k_prev = None \/ v.stoch_d_prev = None

\* 6. RSI 30~70
Stage6(v) ==
    IF ~Defined({v.rsi}) THEN TypeError
    ELSE IF v.rsi < 30 \/ v.rsi > 70 THEN Ret(FALSE, 5)
    ELSE Ret(TRUE, 6)

\* 5. MACD > Signal
Stage5(v) ==
    IF ~Defined({v.macd, v.signal}) THEN TypeError
    ELSE IF v.macd <= v.signal THEN Ret(FALSE, 4)
    ELSE Stage6(v)

\* stage 4 letting an ADX of exactly 25 through
Stage4AllowsAdx25(v) ==
    IF ~Defined({v.adx}) THEN TypeError
    ELSE IF v.adx < 25 THEN Ret(FALSE, 3)
    ELSE Stage5(v)

\* 4. ADX > 25
Stage4(v) ==
    IF ~Defined({v.adx}) THEN TypeError
    ELSE IF v.adx <= 25 THEN Ret(FALSE, 3)
    ELSE Stage5(v)

\* 3. stochastic golden cross, %K and %D at most 80
Stage3(v) ==
    IF ~Defined({v.stoch_k}) THEN TypeError
    ELSE IF v.stoch_k <= 80 /\ ~Defined({v.stoch_d}) THEN TypeError
    ELSE IF v.stoch_k > 80 \/ v.stoch_d > 80 THEN Ret(FALSE, 2)
    ELSE IF ~Defined({v.stoch_k_prev, v.stoch_d_prev}) THEN TypeError
    ELSE IF v.stoch_k_prev <= v.stoch_d_prev /\ v.stoch_k > v.stoch_d THEN Stage4(v)
    ELSE Ret(FALSE, 2)

\* 2. volume trend: 5-day average above the 20-day average
Stage2(v) ==
    IF v.vol_ma5 = None \/ v.vol_ma20 = None THEN Ret(FALSE, 1)
    ELSE IF v.vol_ma5 <= v.vol_ma20 THEN Ret(FALSE, 1)
    ELSE Stage3(v)

\* 1. moving averages aligned: ma5 > ma20 > ma60 > ma120 (a chained comparison,
\* evaluated left to right until one link fails)
Stage1(v) ==
    IF ~Defined({v.ma5, v.ma20}) THEN TypeError
    ELSE IF ~(v.ma5 > v.ma20) THEN Ret(FALSE, 0)
    ELSE IF ~Defined({v.ma60}) THEN TypeError
    ELSE IF ~(v.ma20 > v.ma60) THEN Ret(FALSE, 0)
    ELSE IF ~Defined({v.ma120}) THEN TypeError
    ELSE IF ~(v.ma60 > v.ma120) THEN Ret(FALSE, 0)
    ELSE Stage2(v)

CheckStrategyConditions(idx, len, v) ==
    IF UpFrontGuard(idx, len, v) THEN Ret(FALSE, 0) ELSE Stage1(v)

\* passed, stage = self._check_strategy_conditions(i, ...)
CallCheck ==
    /\ pc = "call"
    /\ ret' = CheckStrategyConditions(args.idx, args.len, args.v)
    /\ pc' = "returned"
    /\ UNCHANGED <<strategy, trading_days, cur, args>>
    /\ UNCHANGED <<scanVars, simVars>>

InitCheck ==
    /\ strategy = "align_momentum"
    /\ \E v \in IndicatorValues :
          /\ Cardinality(Undefined(v)) <= MaxUndefined
          /\ \E idx \in CheckIdx, len \in CheckLens :
                args = [idx |-> idx, len |-> len, v |-> v]
    /\ ret = NoCall
    /\ pc = "call"
    /\ cur = 1
    /\ trading_days = <<>>
    /\ start_date = None
    /\ end_date = None
    /\ debug = FALSE
    /\ stock_codes = <<>>
    /\ selected_stocks = <<>>
    /\ debug_stats = NoStats
    /\ single_profit_cut = FALSE
    /\ results = <<>>
    /\ sim = Idle
    /\ backtested_results = <<>>

NextCheck == CallCheck

SpecCheck == InitCheck /\ [][NextCheck]_vars

\* the screening runs together with single calls of the align_momentum check
InitLookback == InitScan \/ InitCheck

NextLookback ==
    \/ ScanAlign
    \/ ScanMomentum
    \/ ScanBollinger
    \/ ScanReturn
    \/ CallCheck

SpecLookback == InitLookback /\ [][NextLookback]_vars

-----------------------------------------------------------------------------
(* TechnicalIndicators: calculate_ma, calculate_ema, calculate_macd,         *)
(* calculate_rsi, calculate_stochastic                                       *)
(*                                                                           *)
(* Samples are integers (prices and volumes are read with int()); the        *)
(* results are kept as exact fractions n/d with d > 0, in lowest terms.      *)
(* Python's None is the marker Undef.  A list is a sequence: the element at  *)
(* Python index i is the element i + 1 here.                                 *)

MaxSeries == 4            \* longest series handed to an indicator

Undef == [n |-> 0, d |-> 0]
Q(k) == [n |-> k, d |-> 1]

Abs(x) == IF x < 0 THEN -x ELSE x

RECURSIVE GCD(_, _)
GCD(a, b) == IF b = 0 THEN a ELSE GCD(b, a % b)

Frac(n, d) ==
    LET g == GCD(Abs(n), Abs(d))
    IN  IF d < 0 THEN [n |-> (-n) \div g, d |-> (-d) \div g]
        ELSE [n |-> n \div g, d |-> d \div g]

QAdd(a, b) == Frac(a.n * b.d + b.n * a.d, a.d * b.d)
QSub(a, b) == Frac(a.n * b.d - b.n * a.d, a.d * b.d)
QMul(a, b) == Frac(a.n * b.n, a.d * b.d)
QDiv(a, b) == Frac(a.n * b.d, a.d * b.n)

RECURSIVE QSum(_)
QSum(seq) ==
    IF seq = <<>> THEN Q(0)
    ELSE IF Len(seq) = 1 THEN seq[1]
    ELSE LET mid == Len(seq) \div 2
         IN  QAdd(QSum(SubSeq(seq, 1, mid)), QSum(SubSeq(seq, mid + 1, Len(seq))))

NoneList(n) == [k \in 1..n |-> Undef]

IsDefined(x) == x # Undef

\* a moving average that averages whatever defined samples the window holds
calculate_ma_partial(data, period) ==
    IF Len(data) < period
    THEN NoneList(Len(data))
    ELSE [k \in 1..Len(data) |->
            IF k < period THEN Undef
            ELSE LET window == SubSeq(data, k - period + 1, k)
                     valid_values == SelectSeq(window, IsDefined)
                 IN  IF valid_values # <<>>
                     THEN QDiv(QSum(valid_values), Q(Len(valid_values)))
                     ELSE Undef]

\* TechnicalIndicators.calculate_ma
calculate_ma(data, period) ==
    IF Len(data) < period
    THEN NoneList(Len(data))
    ELSE [k \in 1..Len(data) |->
            IF k < period THEN Undef
            ELSE LET window == SubSeq(data, k - period + 1, k)
                     valid_values == SelectSeq(window, IsDefined)
                 IN  IF Len(valid_values) = period
                     THEN QDiv(QSum(valid_values), Q(period))
                     ELSE Undef]

\* for i in range(period, len(data)):
\*     ema = (data[i] - result[-1]) * multiplier + result[-1]
RECURSIVE EmaLoop(_, _, _)
EmaLoop(data, period, result) ==
    IF Len(result) >= Len(data)
    THEN result
    ELSE LET multiplier == Frac(2, period + 1)
             last == result[Len(result)]
             ema  == QAdd(QMul(QSub(data[Len(result) + 1], last), multiplier), last)
         IN  EmaLoop(data, period, Append(result, ema))

\* an exponential average seeded with the sum of the first samples, not their mean
calculate_ema_seeded_by_sum(data, period) ==
    IF Len(data) < period
    THEN NoneList(Len(data))
    ELSE EmaLoop(data, period, NoneList(period - 1) \o <<QSum(SubSeq(data, 1, period))>>)

\* TechnicalIndicators.calculate_ema
calculate_ema(data, period) ==
    IF Len(data) < period
    THEN NoneList(Len(data))
    ELSE LET sma == QDiv(QSum(SubSeq(data, 1, period)), Q(period))
         IN  EmaLoop(data, period, NoneList(period - 1) \o <<sma>>)

\* TechnicalIndicators.calculate_macd
calculate_macd(data, fast, slow, signal) ==
    LET fast_ema == calculate_ema(data, fast)
        slow_ema == calculate_ema(data, slow)
        macd_line == [k \in 1..Len(data) |->
                        IF fast_ema[k] # Undef /\ slow_ema[k] # Undef
                        THEN QSub(fast_ema[k], slow_ema[k])
                        ELSE Undef]
        valid_macd == [k \in 1..Len(data) |->
                        IF macd_line[k] # Undef THEN macd_line[k] ELSE Q(0)]
        signal_line == calculate_ema(valid_macd, signal)
        histogram == [k \in 1..Len(data) |->
                        IF macd_line[k] # Undef /\ signal_line[k] # Undef
                        THEN QSub(macd_line[k], signal_line[k])
                        ELSE Undef]
    IN  [macd_line |-> macd_line, signal_line |-> signal_line, histogram |-> histogram]

\* rsi = 100 if avg_loss == 0, else 100 - (100 / (1 + avg_gain / avg_loss))
RsiValue(avg_gain, avg_loss) ==
    IF avg_loss = Q(0)
    THEN Q(100)
    ELSE QSub(Q(100), QDiv(Q(100), QAdd(Q(1), QDiv(avg_gain, avg_loss))))

\* for i in range(period, len(gains)): Wilder smoothing, one value appended per delta
RECURSIVE RsiLoop(_, _, _, _, _, _, _)
RsiLoop(gains, losses, period, k, avg_gain, avg_loss, rsi_values) ==
    IF k > Len(gains)
    THEN rsi_values
    ELSE LET g == QDiv(QAdd(QMul(avg_gain, Q(period - 1)), gains[k]), Q(period))
             l == QDiv(QAdd(QMul(avg_loss, Q(period - 1)), losses[k]), Q(period))
         IN  RsiLoop(gains, losses, period, k + 1, g, l,
                     Append(rsi_values, RsiValue(g, l)))

\* TechnicalIndicators.calculate_rsi (rsi_values and rsi_signal)
calculate_rsi(prices, period, signal_period) ==
    IF Len(prices) < period + 1
    THEN [rsi_values |-> NoneList(Len(prices)), rsi_signal |-> NoneList(Len(prices))]
    ELSE LET deltas == [k \in 1..(Len(prices) - 1) |-> prices[k + 1] - prices[k]]
             gains  == [k \in 1..Len(deltas) |-> IF deltas[k] > 0 THEN Q(deltas[k]) ELSE Q(0)]
             losses == [k \in 1..Len(deltas) |-> IF deltas[k] < 0 THEN Q(-deltas[k]) ELSE Q(0)]
             avg_gain == QDiv(QSum(SubSeq(gains, 1, period)), Q(period))
             avg_loss == QDiv(QSum(SubSeq(losses, 1, period)), Q(period))
             rsi_values == RsiLoop(gains, losses, period, period + 1, avg_gain, avg_loss,
                                   <<Undef, RsiValue(avg_gain, avg_loss)>>)
         IN  [rsi_values |-> rsi_values,
              rsi_signal |-> calculate_ma(rsi_values, signal_period)]

MaxOf(seq) == CHOOSE x \in {seq[k] : k \in 1..Len(seq)} :
                 \A y \in {seq[k] : k \in 1..Len(seq)} : y <= x
MinOf(seq) == CHOOSE x \in {seq[k] : k \in 1..Len(seq)} :
                 \A y \in {seq[k] : k \in 1..Len(seq)} : x <= y

\* the body of the %K loop for the element at position k
PercentK(highs, lows, closes, k_period, k) ==
    LET period_high == MaxOf(SubSeq(highs, k - k_period + 1, k))
        period_low  == MinOf(SubSeq(lows, k - k_period + 1, k))
    IN  IF period_high = period_low
        THEN Q(50)
        ELSE QMul(Frac(closes[k] - period_low, period_high - period_low), Q(100))

\* a stochastic whose %D averages whatever defined %K values its window holds
calculate_stochastic_partial_d(highs, lows, closes, k_period, d_period) ==
    IF Len(closes) < k_period
    THEN [k_values |-> NoneList(Len(closes)), d_values |-> NoneList(Len(closes))]
    ELSE LET k_values == [k \in 1..Len(closes) |->
                             IF k < k_period THEN Undef
                             ELSE PercentK(highs, lows, closes, k_period, k)]
         IN  [k_values |-> k_values, d_values |-> calculate_ma_partial(k_values, d_period)]

\* TechnicalIndicators.calculate_stochastic
calculate_stochastic(highs, lows, closes, k_period, d_period) ==
    IF Len(closes) < k_period
    THEN [k_values |-> NoneList(Len(closes)), d_values |-> NoneList(Len(closes))]
    ELSE LET k_values == [k \in 1..Len(closes) |->
                             IF k < k_period THEN Undef
                             ELSE PercentK(highs, lows, closes, k_period, k)]
         IN  [k_values |-> k_values, d_values |-> calculate_ma(k_values, d_period)]

\* tr = max(high_low, high_close, low_close) for the bar at position k >= 2
TrueRange(highs, lows, closes, k) ==
    LET high_low   == highs[k] - lows[k]
        high_close == Abs(highs[k] - closes[k - 1])
        low_close  == Abs(lows[k] - closes[k - 1])
    IN  MaxOf(<<high_low, high_close, low_close>>)

\* the value appended to plus_dm for the bar at position k >= 2
PlusDm(highs, lows, k) ==
    LET up_move   == highs[k] - highs[k - 1]
        down_move == lows[k - 1] - lows[k]
    IN  IF up_move > down_move /\ up_move > 0 THEN up_move ELSE 0

\* a -DM that keeps the sign of the move of the lows
MinusDmSigned(highs, lows, k) ==
    LET up_move   == highs[k] - highs[k - 1]
        down_move == lows[k - 1] - lows[k]
    IN  IF down_move > up_move /\ down_move > 0 THEN -down_move ELSE 0

\* the value appended to minus_dm for the bar at position k >= 2
MinusDm(highs, lows, k) ==
    LET up_move   == highs[k] - highs[k - 1]
        down_move == lows[k - 1] - lows[k]
    IN  IF down_move > up_move /\ down_move > 0 THEN down_move ELSE 0

\* TechnicalIndicators._smooth, for the element at position k
smooth(data, period, k) ==
    IF k - 1 < period - 1
    THEN Q(0)
    ELSE LET valid_data == SelectSeq(SubSeq(data, k - period + 1, k), IsDefined)
         IN  IF valid_data # <<>>
             THEN QDiv(QSum(valid_data), Q(Len(valid_data)))
             ELSE Q(0)

\* the value appended to dx_list for one pair of +DI and -DI
Dx(plus_di, minus_di) ==
    IF plus_di # Undef /\ minus_di # Undef
    THEN LET di_sum == QAdd(plus_di, minus_di)
             diff   == QSub(plus_di, minus_di)
         IN  IF di_sum = Q(0) THEN Q(0)
             ELSE QMul(QDiv([n |-> Abs(diff.n), d |-> diff.d], di_sum), Q(100))
    ELSE Undef

\* TechnicalIndicators.calculate_adx; the lists it builds on the way are kept
\* next to the adx list it returns
calculate_adx(highs, lows, closes, period) ==
    IF Len(closes) < period + 1
    THEN [atr |-> <<>>, plus_di_list |-> <<>>, minus_di_list |-> <<>>, dx_list |-> <<>>,
          adx |-> NoneList(Len(closes))]
    ELSE LET tr_list  == [k \in 1..Len(closes) |->
                             IF k = 1 THEN Undef ELSE Q(TrueRange(highs, lows, closes, k))]
             plus_dm  == [k \in 1..Len(highs) |->
                             IF k = 1 THEN Undef ELSE Q(PlusDm(highs, lows, k))]
             minus_dm == [k \in 1..Len(highs) |->
                             IF k = 1 THEN Undef ELSE Q(MinusDm(highs, lows, k))]
             atr == calculate_ma(tr_list, period)
             plus_di_list == [k \in 1..Len(atr) |->
                                 IF atr[k] # Undef /\ atr[k] # Q(0)
                                 THEN QMul(QDiv(smooth(plus_dm, period, k), atr[k]), Q(100))
                                 ELSE Undef]
             minus_di_list == [k \in 1..Len(atr) |->
                                 IF atr[k] # Undef /\ atr[k] # Q(0)
                                 THEN QMul(QDiv(smooth(minus_dm, period, k), atr[k]), Q(100))
                                 ELSE Undef]
             dx_list == [k \in 1..Len(atr) |-> Dx(plus_di_list[k], minus_di_list[k])]
         IN  [atr |-> atr, plus_di_list |-> plus_di_list, minus_di_list |-> minus_di_list,
              dx_list |-> dx_list, adx |-> calculate_ma(dx_list, period)]

(* One call of an indicator function: the arguments are chosen in the        *)
(* initial state, the call stores what the function returns.                 *)

SeqsUpTo(S, n) == UNION {[1..k -> S] : k \in 0..n}

\* samples of a series that may hold undefined values (an already-averaged series)
MaSamples == {Undef, Q(1), Q(3)}
\* prices
Prices == {1, 2, 3}
Periods == {1, 2, 3}
\* (fast, slow, signal)
MacdPeriods == {<<1, 2, 2>>, <<1, 3, 2>>, <<2, 3, 2>>}
RsiPeriods == {1, 2}
\* bars with low <= close <= high
HlcBars == {b \in [high : Prices, low : Prices, close : Prices] :
            b.low <= b.close /\ b.close <= b.high}
StochPeriods == {1, 2}

\* 130 bars of close 100 averaged over 120
FlatCall == [fn |-> "ma", data |-> [k \in 1..(MinLookback + 10) |-> Q(100)],
             period |-> MinLookback]

MaCalls ==
    {[fn |-> "ma", data |-> d, period |-> p] : d \in SeqsUpTo(MaSamples, MaxSeries), p \in Periods}
        \cup {FlatCall}
EmaCalls ==
    {[fn |-> "ema", data |-> [k \in 1..Len(d) |-> Q(d[k])], period |-> p] :
        d \in SeqsUpTo(Prices, MaxSeries), p \in Periods}
MacdCalls ==
    {[fn |-> "macd", data |-> [k \in 1..Len(d) |-> Q(d[k])],
      fast |-> p[1], slow |-> p[2], signal |-> p[3]] :
        d \in SeqsUpTo(Prices, MaxSeries), p \in MacdPeriods}
RsiCalls ==
    {[fn |-> "rsi", prices |-> d, period |-> p, signal_period |-> 2] :
        d \in SeqsUpTo(Prices, MaxSeries), p \in RsiPeriods}
StochasticCalls ==
    {[fn |-> "stochastic",
      highs  |-> [k \in 1..Len(b) |-> b[k].high],
      lows   |-> [k \in 1..Len(b) |-> b[k].low],
      closes |-> [k \in 1..Len(b) |-> b[k].close],
      k_period |-> kp, d_period |-> dp] :
        b \in SeqsUpTo(HlcBars, MaxSeries), kp \in StochPeriods, dp \in StochPeriods}

CallMa ==
    /\ pc = "call"
    /\ args.fn = "ma"
    /\ ret' = calculate_ma(args.data, args.period)
    /\ pc' = "returned"
    /\ UNCHANGED <<strategy, trading_days, cur, args>>
    /\ UNCHANGED <<scanVars, simVars>>

CallEma ==
    /\ pc = "call"
    /\ args.fn = "ema"
    /\ ret' = calculate_ema(args.data, args.period)
    /\ pc' = "returned"
    /\ UNCHANGED <<strategy, trading_days, cur, args>>
    /\ UNCHANGED <<scanVars, simVars>>

CallMacd ==
    /\ pc = "call"
    /\ args.fn = "macd"
    /\ ret' = calculate_macd(args.data, args.fast, args.slow, args.signal)
    /\ pc' = "returned"
    /\ UNCHANGED <<strategy, trading_days, cur, args>>
    /\ UNCHANGED <<scanVars, simVars>>

CallRsi ==
    /\ pc = "call"
    /\ args.fn = "rsi"
    /\ ret' = calculate_rsi(args.prices, args.period, args.signal_period)
    /\ pc' = "returned"
    /\ UNCHANGED <<strategy, trading_days, cur, args>>
    /\ UNCHANGED <<scanVars, simVars>>

CallStochastic ==
    /\ pc = "call"
    /\ args.fn = "stochastic"
    /\ ret' = calculate_stochastic(args.highs, args.lows, args.closes,
                                   args.k_period, args.d_period)
    /\ pc' = "returned"
    /\ UNCHANGED <<strategy, trading_days, cur, args>>
    /\ UNCHANGED <<scanVars, simVars>>

\* bars with low <= high
AdxBars == {b \in [high : {1, 2}, low : {1, 2}, close : {1, 2}] : b.low <= b.high}
AdxPeriods == {1, 2}

AdxCalls ==
    {[fn |-> "adx",
      highs  |-> [k \in 1..Len(b) |-> b[k].high],
      lows   |-> [k \in 1..Len(b) |-> b[k].low],
      closes |-> [k \in 1..Len(b) |-> b[k].close],
      period |-> p] :
        b \in SeqsUpTo(AdxBars, MaxSeries), p \in AdxPeriods}

CallAdx ==
    /\ pc = "call"
    /\ args.fn = "adx"
    /\ ret' = calculate_adx(args.highs, args.lows, args.closes, args.period)
    /\ pc' = "returned"
    /\ UNCHANGED <<strategy, trading_days, cur, args>>
    /\ UNCHANGED <<scanVars, simVars>>

InitIndicators ==
    /\ strategy = "align_momentum"
    /\ args \in MaCalls \cup EmaCalls \cup MacdCalls \cup RsiCalls \cup StochasticCalls
                \cup AdxCalls
    /\ ret = NoCall
    /\ pc = "call"
    /\ cur = 1
    /\ trading_days = <<>>
    /\ start_date = None
    /\ end_date = None
    /\ debug = FALSE
    /\ stock_codes = <<>>
    /\ selected_stocks = <<>>
    /\ debug_stats = NoStats
    /\ single_profit_cut = FALSE
    /\ results = <<>>
    /\ sim = Idle
    /\ backtested_results = <<>>

NextIndicators ==
    \/ CallMa
    \/ CallEma
    \/ CallMacd
    \/ CallRsi
    \/ CallStochastic
    \/ CallAdx

SpecIndicators == InitIndicators /\ [][NextIndicators]_vars

-----------------------------------------------------------------------------
(* macd_rsi_separation: _find_golden_cross, _find_golden_cross_in_range and  *)
(* the look-back searches of find_rsi_golden_cross and                       *)
(* find_ma_separation_golden_cross.  The two lines are lists of numbers and  *)
(* None; the bar at index i is dated DateOf(i).                              *)

MaxLine == 4              \* longest pair of lines with free values
LookbackDays == 10        \* lookback_days

NotFound == [index |-> None]

\* the test of the loop body at index i (i >= 1)
GoldenCrossAt(line1, line2, i) ==
    /\ line1[i + 1] # None /\ line2[i + 1] # None
    /\ line1[i] # None /\ line2[i] # None
    /\ line1[i] <= line2[i]
    /\ line1[i + 1] > line2[i + 1]

\* for i in range(end_index - 1, start_index, -1): the passes from index i down
RECURSIVE CrossLoop(_, _, _, _)
CrossLoop(line1, line2, i, start_index) ==
    IF i <= start_index
    THEN NotFound
    ELSE IF GoldenCrossAt(line1, line2, i)
         THEN [index |-> i, date |-> DateOf(i),
               value1 |-> line1[i + 1], value2 |-> line2[i + 1]]
         ELSE CrossLoop(line1, line2, i - 1, start_index)

\* StockScreener._find_golden_cross_in_range
FindGoldenCrossInRange(line1, line2, start_index, end_index) ==
    CrossLoop(line1, line2, end_index - 1, start_index)

\* StockScreener._find_golden_cross
FindGoldenCross(line1, line2, sd, ed) ==
    LET len == Len(line1)
        first == IF sd = None THEN None ELSE FirstOnOrAfter(len, sd)
        start_index == IF first = None THEN 1 ELSE IF first > 1 THEN first ELSE 1
    IN  FindGoldenCrossInRange(line1, line2, start_index, SearchEnd(len, ed))

\* the search of find_rsi_golden_cross and find_ma_separation_golden_cross
LookbackSearch(line1, line2, macd_gc_index, lookback_days) ==
    LET start_index == IF macd_gc_index - lookback_days > 0
                       THEN macd_gc_index - lookback_days ELSE 0
    IN  FindGoldenCrossInRange(line1, line2, start_index, macd_gc_index)

\* pairs of lines with free values
ShortLines ==
    UNION {[line1 : [1..n -> {None, 1, 3}], line2 : [1..n -> {None, 2}]] : n \in 2..MaxLine}

\* pairs of lines long enough for the look-back: line2 is flat, line1 is
\* under it except where it is chosen over it
LongLen == LookbackDays + 2
HighAt == SUBSET {1, 2, LookbackDays}
LongLines ==
    {[line1 |-> [k \in 1..LongLen |-> IF k - 1 \in H THEN 3 ELSE 1],
      line2 |-> [k \in 1..LongLen |-> 2]] : H \in HighAt}

InRangeCalls ==
    {[fn |-> "in_range", line1 |-> l.line1, line2 |-> l.line2,
      start_index |-> r[1], end_index |-> r[2]] :
        l \in ShortLines, r \in (0..MaxLine) \X (0..MaxLine)}
GoldenCrossCalls ==
    {[fn |-> "golden_cross", line1 |-> l.line1, line2 |-> l.line2,
      start_date |-> r[1], end_date |-> r[2]] :
        l \in ShortLines,
        r \in ({None} \cup {DateOf(i) : i \in 0..MaxLine})
              \X ({None} \cup {DateOf(i) : i \in 0..MaxLine})}
LookbackCalls ==
    {[fn |-> "lookback", line1 |-> l.line1, line2 |-> l.line2,
      macd_gc_index |-> m, lookback_days |-> LookbackDays] :
        l \in LongLines, m \in {LookbackDays - 5, LookbackDays + 1}}

CrossCalls ==
    {c \in InRangeCalls : c.start_index <= c.end_index /\ c.end_index <= Len(c.line1)}
        \cup {c \in GoldenCrossCalls :
                 c.start_date = None \/ c.end_date = None \/ c.start_date <= c.end_date}
        \cup LookbackCalls

CallFindInRange ==
    /\ pc = "call"
    /\ args.fn = "in_range"
    /\ ret' = FindGoldenCrossInRange(args.line1, args.line2,
                                     args.start_index, args.end_index)
    /\ pc' = "returned"
    /\ UNCHANGED <<strategy, trading_days, cur, args>>
    /\ UNCHANGED <<scanVars, simVars>>

CallFindGoldenCross ==
    /\ pc = "call"
    /\ args.fn = "golden_cross"
    /\ ret' = FindGoldenCross(args.line1, args.line2, args.start_date, args.end_date)
    /\ pc' = "returned"
    /\ UNCHANGED <<strategy, trading_days, cur, args>>
    /\ UNCHANGED <<scanVars, simVars>>

CallLookbackSearch ==
    /\ pc = "call"
    /\ args.fn = "lookback"
    /\ ret' = LookbackSearch(args.line1, args.line2, args.macd_gc_index,
                             args.lookback_days)
    /\ pc' = "returned"
    /\ UNCHANGED <<strategy, trading_days, cur, args>>
    /\ UNCHANGED <<scanVars, simVars>>

InitCross ==
    /\ strategy = "macd_rsi_separation"
    /\ args \in CrossCalls
    /\ ret = NoCall
    /\ pc = "call"
    /\ cur = 1
    /\ trading_days = <<>>
    /\ start_date = None
    /\ end_date = None
    /\ debug = FALSE
    /\ stock_codes = <<>>
    /\ selected_stocks = <<>>
    /\ debug_stats = NoStats
    /\ single_profit_cut = FALSE
    /\ results = <<>>
    /\ sim = Idle
    /\ backtested_results = <<>>

NextCross ==
    \/ CallFindInRange
    \/ CallFindGoldenCross
    \/ CallLookbackSearch

SpecCross == InitCross /\ [][NextCross]_vars

-----------------------------------------------------------------------------
(* Properties of the simulators *)

RECURSIVE SumHalves(_)
SumHalves(evs) == IF evs = <<>> THEN 0 ELSE evs[1].halves + SumHalves(Tail(evs))

Events(st) == {st.realized[k] : k \in 1..Len(st.realized)}

\* the signal record a simulation belongs to
SigOf(code) == results[CHOOSE k \in 1..Len(results) : results[k].code = code]

\* the indices of the bars the loop body has been run on
Processed(st) == (SignalIdx + 1)..(IF st.broke THEN st.i ELSE st.i - 1)

InTieredRun == strategy \in Tiered /\ sim # Idle
Settled     == InTieredRun /\ pc # "bars"

\* the whole simulation of one signal as a function of the series
RECURSIVE RunLoop(_, _, _, _, _)
RunLoop(s, st, sig, ts, single) ==
    IF st.broke \/ st.i >= TsLen(ts)
    THEN TieredSettle(st, ts)
    ELSE RunLoop(s, TieredAdvance(s, st, sig, ts, single), sig, ts, single)

RunTiered(s, sig, ts, single) == RunLoop(s, TieredEntry(sig, ts), sig, ts, single)

Outcome(st) == <<st.exit_date, st.exit_reason, st.total_profit>>

\* the series cut off after the bar at index j
Truncate(ts, j) == SubSeq(ts, 1, j - SignalIdx)

\* C1: in the tiered simulators a processed bar whose low is at or under the
\* stop-loss closes the run on that bar as 'stop_loss', and nothing but the
\* stop-loss is realized on that bar, whatever the bar's high
C1_StopLossDominates ==
    (InTieredRun /\ pc = "bars") =>
        \A j \in Processed(sim) :
            BarAt(Timeseries(sim.code), j).low <= SigOf(sim.code).stop_loss =>
                /\ sim.broke
                /\ sim.i = j
                /\ sim.exit_reason = "stop_loss"
                /\ sim.exit_date = DateOf(j)
                /\ sim.remaining_position = Flat
                /\ \A e \in Events(sim) : e.bar = j => e.kind = "stop_loss"

\* C1 witness: a run closed as stop_loss on a bar whose high reached tier 2
C1_Witness ==
    /\ InTieredRun /\ pc = "bars" /\ sim.broke
    /\ sim.exit_reason = "stop_loss"
    /\ BarAt(Timeseries(sim.code), sim.i).low <= SigOf(sim.code).stop_loss
    /\ BarAt(Timeseries(sim.code), sim.i).high >= SigOf(sim.code).take_profit_2

C2_Conservation ==
    InTieredRun =>
        /\ sim.remaining_position \in {Full, Half, Flat}
        /\ pc = "bars" => SumHalves(sim.realized) + sim.remaining_position = Full
        /\ pc # "bars" => SumHalves(sim.realized) = Full
        /\ \A e \in Events(sim) :
              /\ e.kind = "take_profit_1" => e.halves = Half /\ ~single_profit_cut
              /\ e.kind = "take_profit_2" =>
                    e.halves = IF single_profit_cut THEN Full ELSE Half

C2_NoIncrease ==
    (InTieredRun /\ pc = "bars") =>
        sim'.remaining_position <= sim.remaining_position

\* C2: the realized fractions of a tiered run add up to the whole position
\* (two halves) once its result is produced, in two-tier and single-tier mode;
\* the remaining position is 1.0, 0.5 or 0.0 and never goes up
C2_FractionsSumToOne == []C2_Conservation /\ [][C2_NoIncrease]_vars

\* C2 witness: a settled run that realized tier 1 and later something else
C2_Witness ==
    /\ Settled
    /\ Len(sim.realized) = 2
    /\ sim.realized[1].kind = "take_profit_1"
    /\ sim.realized[1].bar < sim.realized[2].bar

\* entry price recorded in a result, and the skip condition of a signal
EntryOf(r) == IF strategy \in Tiered THEN r.entry_price ELSE r.buy_price
NoEntry(sig) ==
    \/ Len(Timeseries(sig.code)) = 0
    \/ Timeseries(sig.code)[1].open \in {0, None}
ResultCodes == {backtested_results[k].code : k \in 1..Len(backtested_results)}

\* C7: in every variant the entry price is the open of the bar after the signal
\* bar; a signal with no such bar, or with a zero or missing open there, gets no
\* result, and the run goes on with the remaining signals
C7_EntrySkip ==
    /\ pc # "crashed"
    /\ \A k \in 1..Len(backtested_results) :
          LET r == backtested_results[k]
          IN  /\ ~NoEntry(SigOf(r.code))
              /\ EntryOf(r) = Timeseries(r.code)[1].open
    /\ pc = "done" =>
          \A k \in 1..Len(results) :
              (results[k].code \in ResultCodes) <=> ~NoEntry(results[k])

\* the same statement for the two tiered simulators alone
C7_EntrySkipTiered == strategy \in Tiered => C7_EntrySkip

\* C8: once a tiered run is closed no later bar is examined, the exit date is
\* the closing bar's date, and exit date, exit reason and return are those of
\* the series cut off after the closing bar
C8_ClosedRunIsFinal ==
    (InTieredRun /\ sim.remaining_position = Flat) =>
        LET closing == sim.realized[Len(sim.realized)].bar
            ts      == Timeseries(sim.code)
            sig     == SigOf(sim.code)
        IN  /\ sim.i = closing
            /\ sim.exit_date = DateOf(closing)
            /\ sim.exit_reason \in {"stop_loss", "take_profit_2"}
            /\ Outcome(sim) =
                  Outcome(RunTiered(strategy, sig, Truncate(ts, closing),
                                    single_profit_cut))

\* C8 witness: a settled run that closed before the last bar of its series
C8_Witness ==
    /\ Settled
    /\ sim.remaining_position = Flat
    /\ sim.i < TsLen(Timeseries(sim.code)) - 1

\* C9: a tiered run whose position is still open when the bars run out realizes
\* the remaining fraction at the last bar's close, dated the last bar, as
\* 'holding_100' without a tier-1 realization and 'holding_50' with one; no
\* other run gets either label
C9_HoldingAtEnd ==
    Settled =>
        LET ts    == Timeseries(sim.code)
            last  == TsLen(ts) - 1
            tier1 == \E e \in Events(sim) : e.kind = "take_profit_1"
            held  == sim.remaining_position > 0
        IN  /\ held =>
                  /\ sim.i = TsLen(ts)
                  /\ sim.exit_date = DateOf(last)
                  /\ sim.exit_reason = IF tier1 THEN "holding_50" ELSE "holding_100"
                  /\ sim.remaining_position = IF tier1 THEN Half ELSE Full
                  /\ sim.realized[Len(sim.realized)] =
                        [bar |-> last, halves |-> sim.remaining_position,
                         price |-> BarAt(ts, last).close, kind |-> "holding"]
            /\ sim.exit_reason \in {"holding_100", "holding_50"} => held
            /\ backtested_results # <<>>
            /\ backtested_results[Len(backtested_results)].exit_reason = sim.exit_reason
            /\ backtested_results[Len(backtested_results)].exit_date = sim.exit_date

\* C9 witness: a run that realized tier 1 and held the other half to the end
C9_Witness ==
    /\ Settled
    /\ sim.exit_reason = "holding_50"
    /\ sim.realized[1].kind = "take_profit_1"

\* C10: in single-tier mode tier 1 is never applied, a bar over the stop-loss
\* whose high reaches take_profit_2 realizes the whole position there and
\* closes the run, and that exit is classified 'take_profit'
C10_SingleTier ==
    (InTieredRun /\ strategy = "momentum_trend" /\ single_profit_cut) =>
        /\ sim.remaining_position # Half
        /\ sim.exit_reason # "holding_50"
        /\ \A e \in Events(sim) : e.kind # "take_profit_1"
        /\ \A j \in Processed(sim) :
              LET day == BarAt(Timeseries(sim.code), j)
                  sig == SigOf(sim.code)
              IN  (day.low > sig.stop_loss /\ day.high >= sig.take_profit_2) =>
                      /\ sim.broke /\ sim.i = j
                      /\ sim.remaining_position = Flat
                      /\ sim.realized = <<[bar |-> j, halves |-> Full,
                                           price |-> sig.take_profit_2,
                                           kind |-> "take_profit_2"]>>
                      /\ sim.exit_reason = "take_profit"

\* the single-tier behaviour with the label the simulator writes
C10_SingleTierAsCoded ==
    (InTieredRun /\ strategy = "momentum_trend" /\ single_profit_cut) =>
        /\ sim.remaining_position # Half
        /\ sim.exit_reason # "holding_50"
        /\ \A j \in Processed(sim) :
              LET day == BarAt(Timeseries(sim.code), j)
                  sig == SigOf(sim.code)
              IN  (day.low > sig.stop_loss /\ day.high >= sig.take_profit_2) =>
                      /\ sim.broke /\ sim.i = j
                      /\ sim.remaining_position = Flat
                      /\ sim.exit_reason = "take_profit_2"

\* the bars of the run's series from the entry bar on, and what they reach
RunBars == (SignalIdx + 1)..(TsLen(Timeseries(sim.code)) - 1)
StopAt(j) == BarAt(Timeseries(sim.code), j).low <= SigOf(sim.code).stop_loss
Tier1At(j) == BarAt(Timeseries(sim.code), j).high >= SigOf(sim.code).take_profit_1
Tier2At(j) == BarAt(Timeseries(sim.code), j).high >= SigOf(sim.code).take_profit_2
TwoTier == InTieredRun /\ ~single_profit_cut

\* percent return times entry price: fraction * (price - entry) / entry * 100
\* summed over the realizations, with fractions counted in halves
PercentByEntry(st) == st.total_profit * 50

\* C11: in two-tier mode, when tier 2 is reached with no stop-loss bar at or
\* before it, the return is half the tier-1 return plus half the tier-2
\* return and the exit is 'take_profit_2'; for entry 1000 (stop-loss 920,
\* tiers 1130 and 1210) with the tiers on separate bars the return is 17%
C11_BothTiersReturn ==
    (Settled /\ TwoTier) =>
        \A j \in RunBars :
            (Tier2At(j) /\ \A k \in RunBars : k <= j => ~StopAt(k)) =>
                LET sig == SigOf(sim.code)
                IN  /\ sim.total_profit =
                          Half * (sig.take_profit_1 - sim.entry_price)
                          + Half * (sig.take_profit_2 - sim.entry_price)
                    /\ sim.exit_reason = "take_profit_2"
                    /\ backtested_results[Len(backtested_results)].profit_rate
                          = sim.total_profit
                    /\ (sim.entry_price = 1000 /\ \E k \in RunBars : k < j /\ Tier1At(k))
                          => PercentByEntry(sim) = 17 * sim.entry_price

\* C11 witness: entry at 1000, tier 1 on one bar and tier 2 on the next
C11_Witness ==
    /\ Settled /\ TwoTier
    /\ sim.entry_price = 1000
    /\ sim.exit_reason = "take_profit_2"
    /\ Tier1At(SignalIdx + 1) /\ ~Tier2At(SignalIdx + 1)
    /\ Tier2At(SignalIdx + 2)

C12_StopAfterTier1 ==
    (Settled /\ TwoTier) =>
        \A j \in RunBars :
            (/\ StopAt(j)
             /\ \A k \in RunBars : k < j => ~StopAt(k) /\ ~Tier2At(k)
             /\ \E k \in RunBars : k < j /\ Tier1At(k)) =>
                LET sig == SigOf(sim.code)
                IN  /\ sim.total_profit =
                          Half * (sig.take_profit_1 - sim.entry_price)
                          + Half * (sig.stop_loss - sim.entry_price)
                    /\ sim.exit_reason = "stop_loss"
                    /\ sim.exit_date = DateOf(j)
                    /\ sim.entry_price = 1000 => PercentByEntry(sim) * 2 = 5 * sim.entry_price

C12_Tier1Untouched ==
    (InTieredRun /\ pc = "bars" /\ sim.remaining_position = Half
        /\ sim'.exit_reason = "stop_loss") =>
        /\ sim'.total_profit =
              sim.total_profit + Half * (SigOf(sim.code).stop_loss - sim.entry_price)
        /\ SubSeq(sim'.realized, 1, Len(sim.realized)) = sim.realized

\* C12: a stop-loss bar after tier 1 realizes only the remaining half at the
\* stop-loss price: the return is half the tier-1 return plus half the
\* stop-loss return (2.5% for entry 1000), what tier 1 realized stays as it
\* was, and the exit is 'stop_loss'
C12_StopLossOnRemainder == []C12_StopAfterTier1 /\ [][C12_Tier1Untouched]_vars

\* C12 witness: tier 1 on the entry bar, the stop-loss on the next bar
C12_Witness ==
    /\ Settled /\ TwoTier
    /\ sim.entry_price = 1000
    /\ sim.exit_reason = "stop_loss"
    /\ Tier1At(SignalIdx + 1) /\ ~StopAt(SignalIdx + 1) /\ ~Tier2At(SignalIdx + 1)
    /\ StopAt(SignalIdx + 2)


-----------------------------------------------------------------------------
(* Properties of the screening runs                                          *)

ForwardStrategies == {"align_momentum", "momentum_trend"}

\* the universe entries whose series the run has scanned so far
Scanned ==
    {k \in 1..Len(stock_codes) :
        k < cur /\ trading_days[stock_codes[k].code].len >= MinHistory}

\* the candidate indices of an entry's scan range that pass every stage
PassingIdx(k) ==
    LET d == trading_days[stock_codes[k].code]
    IN  {i \in SearchStart(strategy, d.len, start_date)..(SearchEnd(d.len, end_date) - 1) :
            Check(strategy, d, i).passed}

\* the signal indices recorded for a universe entry
SignalsOf(k) ==
    {selected_stocks[j].signal_index : j \in
        {j \in 1..Len(selected_stocks) :
            /\ selected_stocks[j].code = stock_codes[k].code
            /\ selected_stocks[j].name = stock_codes[k].name}}

\* C3: a run of find_align_momentum_stocks leaves at most one signal record
\* per instrument code, whatever names the code is listed under.
C3_OneSignalPerCode ==
    (pc \in {"scan", "done"} /\ strategy = "align_momentum") =>
        \A j, k \in 1..Len(selected_stocks) :
            selected_stocks[j].code = selected_stocks[k].code => j = k

\* C4: in the forward scans the signal recorded for a scanned instrument is
\* the smallest passing index of [search_start_idx, search_end_idx), and no
\* signal is recorded exactly when no index of the range passes.
C4_EarliestPassingIndex ==
    (pc \in {"scan", "done"} /\ strategy \in ForwardStrategies) =>
        \A k \in Scanned :
            SignalsOf(k) = IF PassingIdx(k) = {} THEN {} ELSE {Min(PassingIdx(k))}

\* a finished forward scan over a series with two passing indices in range
C4_Witness ==
    /\ pc = "done"
    /\ strategy \in ForwardStrategies
    /\ \E k \in Scanned :
          /\ Cardinality(PassingIdx(k)) >= 2
          /\ SignalsOf(k) = {MinLookback}

\* C5: in the backward scan the signal recorded for a scanned instrument is
\* the greatest passing index of the scan window, and a signal is recorded
\* whenever an index of the window passes all six stages.
C5_LatestPassingIndex ==
    (pc \in {"scan", "done"} /\ strategy = "bollinger_volume") =>
        \A k \in Scanned :
            PassingIdx(k) # {} => SignalsOf(k) = {Max(PassingIdx(k))}

\* C6: every recorded signal is dated within [start_date, end_date].
C6_SignalInWindow ==
    (pc \in {"scan", "done"} /\ start_date # None /\ end_date # None
        /\ start_date <= end_date) =>
        \A j \in 1..Len(selected_stocks) :
            /\ start_date <= selected_stocks[j].signal_date
            /\ selected_stocks[j].signal_date <= end_date

\* the end_date side alone: no signal is dated after end_date
SignalNotAfterEnd ==
    (pc \in {"scan", "done"} /\ end_date # None) =>
        \A j \in 1..Len(selected_stocks) : selected_stocks[j].signal_date <= end_date

\* the backward scan records some passing index, when it records one at all
BackwardSignalPasses ==
    (pc \in {"scan", "done"} /\ strategy = "bollinger_volume") =>
        \A k \in Scanned : SignalsOf(k) \subseteq PassingIdx(k)


-----------------------------------------------------------------------------
(* Properties of _check_strategy_conditions (align_momentum)                 *)

\* the six conditions as truth values; a condition with an undefined operand
\* does not hold
Cond1(v) == /\ Defined({v.ma5, v.ma20, v.ma60, v.ma120})
            /\ v.ma5 > v.ma20 /\ v.ma20 > v.ma60 /\ v.ma60 > v.ma120
Cond2(v) == Defined({v.vol_ma5, v.vol_ma20}) /\ v.vol_ma5 > v.vol_ma20
Cond3(v) == /\ Defined({v.stoch_k, v.stoch_d, v.stoch_k_prev, v.stoch_d_prev})
            /\ v.stoch_k <= 80 /\ v.stoch_d <= 80
            /\ v.stoch_k_prev <= v.stoch_d_prev /\ v.stoch_k > v.stoch_d
Cond4(v) == Defined({v.adx}) /\ v.adx > 25
Cond5(v) == Defined({v.macd, v.signal}) /\ v.macd > v.signal
Cond6(v) == Defined({v.rsi}) /\ v.rsi >= 30 /\ v.rsi <= 70

Cond(k, v) ==
    CASE k = 1 -> Cond1(v) [] k = 2 -> Cond2(v) [] k = 3 -> Cond3(v)
      [] k = 4 -> Cond4(v) [] k = 5 -> Cond5(v) [] k = 6 -> Cond6(v)

\* the number of conditions that hold before the first one that fails
LeadingConds(v) == Max({k \in 0..6 : \A j \in 1..k : Cond(j, v)})

Returned == pc = "returned" /\ args # NoCall

\* the values the up-front test for None looks at
UpFrontFields == {"ma5", "ma20", "ma60", "ma120", "stoch_k", "stoch_d", "adx",
                  "macd", "signal", "rsi", "stoch_k_prev", "stoch_d_prev"}

InLookback == args.idx >= MinLookback /\ args.idx < args.len

\* C13 as stated, for every index and every input: the stage is the number of
\* leading conditions that hold, and passed says that all six hold
C13_StageForEveryInput ==
    Returned =>
        /\ ret.stage = LeadingConds(args.v)
        /\ ret.passed = (ret.stage = 6)

\* C13 (amended): at an index of at least 120 inside the lists, with the ten
\* indicator values at the index and %K, %D at the index before it defined,
\* the stage is the number of leading conditions that hold (so the next
\* condition fails and later ones have no effect) and passed says stage = 6
C13_StageCountsLeadingConditions ==
    (Returned /\ InLookback /\ Undefined(args.v) \cap UpFrontFields = {}) =>
        /\ ~ret.raised
        /\ ret.stage = LeadingConds(args.v)
        /\ ret.passed = (ret.stage = 6)

\* C13 witness: a call stopped at stage 3 while condition 5 holds and
\* condition 6 does not
C13_Witness ==
    /\ Returned /\ InLookback
    /\ Undefined(args.v) = {}
    /\ ret = Ret(FALSE, 3)
    /\ Cond5(args.v) /\ ~Cond6(args.v)

\* C14: when any indicator value the stages read is undefined the call
\* returns (False, 0), and no comparison gets an undefined operand
C14_UndefinedFailsClosed ==
    (Returned /\ Undefined(args.v) # {}) => ret = Ret(FALSE, 0)

\* what holds of undefined inputs: never passed, never a comparison on None,
\* and stage 0 unless only volume averages are undefined
UndefinedNeverPasses ==
    (Returned /\ Undefined(args.v) # {}) =>
        /\ ~ret.raised
        /\ ~ret.passed
        /\ Undefined(args.v) \cap UpFrontFields # {} => ret = Ret(FALSE, 0)
        /\ ret.stage \in {0, 1}


Rejected == [passed |-> FALSE, stage |-> 0]

\* C15: for an index under 120 the check returns (False, 0) whatever holds
\* at the index, in align_momentum, momentum_trend and bollinger_volume, and
\* no signal of a screening run has a signal index under 120
C15_NoSignalBelowLookback ==
    /\ (Returned /\ args.idx < MinLookback) => ret = Ret(FALSE, 0)
    /\ pc \in {"scan", "done"} =>
          /\ \A c \in Codes : \A i \in {0, MinLookback - 1} :
                Check(strategy, trading_days[c], i) = Rejected
          /\ \A j \in 1..Len(selected_stocks) :
                selected_stocks[j].signal_index >= MinLookback

\* C15 witness: a finished scan from index 0 over a series whose conditions
\* all hold at index 119 and at index 120, with the signal at 120
C15_Witness ==
    /\ pc = "done"
    /\ strategy = "momentum_trend"
    /\ start_date = None
    /\ \E k \in Scanned :
          /\ stock_codes[k].code = "A"
          /\ trading_days["A"].reach[MinLookback - 1] = NConds(strategy)
          /\ SignalsOf(k) = {MinLookback}

-----------------------------------------------------------------------------
(* Properties of the indicator functions *)

Called(fn) == pc = "returned" /\ args # NoCall /\ args.fn = fn

\* Python indices of a list
Indices(seq) == 0..(Len(seq) - 1)
\* the element at Python index i
At(seq, i) == seq[i + 1]

\* a <= b for fractions
QLe(a, b) == a.n * b.d <= b.n * a.d

\* the first Python index at which the MACD line is defined (the length if none)
FirstDefined(seq) ==
    IF \E i \in Indices(seq) : At(seq, i) # Undef
    THEN CHOOSE i \in Indices(seq) :
            At(seq, i) # Undef /\ \A j \in 0..(i - 1) : At(seq, j) = Undef
    ELSE Len(seq)

\* C16: in calculate_macd the signal line is undefined at every index where
\* the MACD line is undefined and at the first signal-1 indices after the
\* MACD line becomes defined: no undefined MACD sample counts as a number.
C16_UndefinedPropagatesToSignal ==
    Called("macd") =>
        \A i \in Indices(ret.macd_line) :
            (\/ At(ret.macd_line, i) = Undef
             \/ i < FirstDefined(ret.macd_line) + args.signal - 1)
                => At(ret.signal_line, i) = Undef

\* the Python indices of the window data[i-period+1..i]
Window(i, period) == (i - period + 1)..i

\* C17: calculate_ma returns a list as long as data; element i is undefined
\* when i < period-1 or some sample of data[i-period+1..i] is undefined, and
\* is the arithmetic mean of those period samples otherwise; a list shorter
\* than period gives only undefined elements; 130 samples of 100 with period
\* 120 give 100 at index 119 and undefined at index 118.
C17_MovingAverage ==
    Called("ma") =>
        /\ Len(ret) = Len(args.data)
        /\ \A i \in Indices(ret) :
              IF \/ i < args.period - 1
                 \/ \E j \in Window(i, args.period) : At(args.data, j) = Undef
              THEN At(ret, i) = Undef
              ELSE /\ At(ret, i) # Undef
                   /\ QMul(At(ret, i), Q(args.period))
                        = QSum([k \in 1..args.period |-> At(args.data, i - args.period + k)])
        /\ Len(args.data) < args.period => \A i \in Indices(ret) : At(ret, i) = Undef
        /\ args = FlatCall =>
              /\ At(ret, MinLookback - 1) = Q(100)
              /\ At(ret, MinLookback - 2) = Undef

\* a call whose data holds an undefined sample after the warm-up, with a
\* defined average elsewhere in the result
C17_Witness ==
    /\ Called("ma")
    /\ \E i \in Indices(ret) :
          /\ i >= args.period - 1
          /\ \E j \in Window(i, args.period) : At(args.data, j) = Undef
          /\ At(ret, i) = Undef
    /\ \E i \in Indices(ret) : At(ret, i) # Undef /\ args.period > 1

\* a series of one repeated number
IsConstant(data) ==
    /\ data # <<>>
    /\ data[1] # Undef
    /\ \A k \in 1..Len(data) : data[k] = data[1]

\* C18: on a constant series of length >= period, calculate_ma and
\* calculate_ema return exactly the constant at every index >= period-1 and
\* undefined before it; on a series shorter than period calculate_ema returns
\* a list of the same length with only undefined elements.
C18_ConstantSeries ==
    /\ ((Called("ma") \/ Called("ema"))
            /\ IsConstant(args.data) /\ Len(args.data) >= args.period) =>
          /\ Len(ret) = Len(args.data)
          /\ \A i \in Indices(ret) :
                At(ret, i) = IF i >= args.period - 1 THEN args.data[1] ELSE Undef
    /\ (Called("ema") /\ Len(args.data) < args.period) =>
          /\ Len(ret) = Len(args.data)
          /\ \A i \in Indices(ret) : At(ret, i) = Undef

\* an exponential average of a constant series, past the seed and with a warm-up
C18_Witness ==
    /\ Called("ema")
    /\ IsConstant(args.data)
    /\ args.period > 1
    /\ Len(args.data) > args.period
    /\ At(ret, Len(ret) - 1) = args.data[1]
    /\ At(ret, 0) = Undef

\* the price delta ending at Python index i (i >= 1)
DeltaAt(prices, i) == At(prices, i) - At(prices, i - 1)

\* the period most recent deltas ending at index i are all gains
OnlyGains(prices, period, i) ==
    \A j \in Window(i, period) : DeltaAt(prices, j) > 0

\* C19: every defined value of calculate_rsi lies in [0, 100], and at every
\* index i >= period of the price series the RSI is exactly 100 whenever the
\* period most recent price deltas ending at i are all gains, whatever losses
\* came earlier.
C19_RsiHundredOnGains ==
    Called("rsi") =>
        /\ \A i \in Indices(ret.rsi_values) :
              At(ret.rsi_values, i) # Undef =>
                  /\ QLe(Q(0), At(ret.rsi_values, i))
                  /\ QLe(At(ret.rsi_values, i), Q(100))
        /\ \A i \in Indices(args.prices) :
              (i >= args.period /\ OnlyGains(args.prices, args.period, i)) =>
                  /\ i \in Indices(ret.rsi_values)
                  /\ At(ret.rsi_values, i) = Q(100)

\* the highest high equals the lowest low over the k_period bars ending at i
ZeroRange(i) ==
    \A j, k \in Window(i, args.k_period) : At(args.highs, j) = At(args.lows, k)

\* C20: for bars with low <= close <= high, every defined %K of
\* calculate_stochastic lies in [0, 100]; %K[i] is 50 whenever the highest
\* high equals the lowest low over the trailing k_period bars; %K is
\* undefined for i < k_period-1; %D[i] is defined only when %K is defined on
\* all of the d_period indices ending at i.
C20_Stochastic ==
    Called("stochastic") =>
        /\ \A i \in Indices(ret.k_values) :
              /\ At(ret.k_values, i) # Undef =>
                    /\ QLe(Q(0), At(ret.k_values, i))
                    /\ QLe(At(ret.k_values, i), Q(100))
              /\ (i >= args.k_period - 1 /\ ZeroRange(i)) => At(ret.k_values, i) = Q(50)
              /\ i < args.k_period - 1 => At(ret.k_values, i) = Undef
        /\ \A i \in Indices(ret.d_values) :
              At(ret.d_values, i) # Undef =>
                  \A j \in Window(i, args.d_period) :
                      j \in Indices(ret.k_values) /\ At(ret.k_values, j) # Undef

\* a call with a warm-up, a flat window, a %K off the middle, and a %D that
\* is held back by an undefined %K next to one that is defined
C20_Witness ==
    /\ Called("stochastic")
    /\ args.k_period > 1
    /\ args.d_period > 1
    /\ ret.k_values # <<>>
    /\ At(ret.k_values, 0) = Undef
    /\ \E i \in Indices(ret.k_values) :
          i >= args.k_period - 1 /\ ZeroRange(i) /\ At(ret.k_values, i) = Q(50)
    /\ \E i \in Indices(ret.k_values) : At(ret.k_values, i) \notin {Undef, Q(50)}
    /\ \E i \in Indices(ret.d_values) :
          i >= args.d_period - 1 /\ At(ret.d_values, i) = Undef
    /\ \E i \in Indices(ret.d_values) : At(ret.d_values, i) # Undef

\* a >= 0 for a fraction
NonNegative(a) == QLe(Q(0), a)

\* C21: every defined +DI, -DI, DX and ADX value computed by calculate_adx is
\* >= 0, and DX and ADX are <= 100, for bars with high >= low.
C21_AdxNonNegative ==
    Called("adx") =>
        /\ \A i \in Indices(ret.plus_di_list) :
              /\ At(ret.plus_di_list, i) # Undef => NonNegative(At(ret.plus_di_list, i))
              /\ At(ret.minus_di_list, i) # Undef => NonNegative(At(ret.minus_di_list, i))
              /\ At(ret.dx_list, i) # Undef =>
                    NonNegative(At(ret.dx_list, i)) /\ QLe(At(ret.dx_list, i), Q(100))
        /\ \A i \in Indices(ret.adx) :
              At(ret.adx, i) # Undef =>
                  NonNegative(At(ret.adx, i)) /\ QLe(At(ret.adx, i), Q(100))

\* a call with a falling low (a -DM above zero), a defined -DI above zero and
\* a defined ADX above zero
C21_Witness ==
    /\ Called("adx")
    /\ args.period > 1
    /\ \E i \in Indices(ret.minus_di_list) :
          /\ At(ret.minus_di_list, i) # Undef
          /\ At(ret.minus_di_list, i) # Q(0)
          /\ At(ret.plus_di_list, i) # Q(0)
    /\ \E i \in Indices(ret.adx) : At(ret.adx, i) \notin {Undef, Q(0), Q(100)}

\* C26: in calculate_adx, where the smoothed true range (ATR) is 0, +DI and
\* -DI are 0 and not undefined, DX is 0 there, and ADX is defined over every
\* window that holds such an index among otherwise defined DX values.
C26_ZeroAtrGivesZeroDi ==
    Called("adx") =>
        /\ \A i \in Indices(ret.atr) :
              At(ret.atr, i) = Q(0) =>
                  /\ At(ret.plus_di_list, i) = Q(0)
                  /\ At(ret.minus_di_list, i) = Q(0)
                  /\ At(ret.dx_list, i) = Q(0)
        /\ \A i \in Indices(ret.adx) :
              (/\ i >= 2 * args.period - 1
               /\ \A j \in Window(i, args.period) : At(ret.atr, j) # Undef)
                  => At(ret.adx, i) # Undef

-----------------------------------------------------------------------------
(* Properties of the diagnostics of the screening runs *)

\* the universe entries that are excluded for a series shorter than MinHistory
Excluded ==
    {k \in 1..Len(stock_codes) : trading_days[stock_codes[k].code].len < MinHistory}

\* C22: with diagnostics on, total_checked counts the instruments evaluated:
\* at the end of the run it is at most the universe size less the number of
\* instruments excluded for a series shorter than 150 bars.
C22_TotalCheckedCountsInstruments ==
    (pc = "done" /\ debug) =>
        debug_stats.total_checked <= Len(stock_codes) - Cardinality(Excluded)

\* the per-instrument loop of a screening run, from entry k of the universe on
RECURSIVE RunFrom(_, _, _, _, _, _, _, _)
RunFrom(s, td, codes, k, sd, ed, dbg, acc) ==
    IF k > Len(codes)
    THEN acc
    ELSE LET e == codes[k]
             r == IF s = "bollinger_volume"
                  THEN BollingerInstrument(e, td[e.code], sd, ed, dbg, acc.selected, acc.stats)
                  ELSE ForwardInstrument(s, e, td[e.code], sd, ed, dbg, acc.selected, acc.stats)
         IN  RunFrom(s, td, codes, k + 1, sd, ed, dbg, r)

\* the list a whole screening run returns
RunSelected(s, td, sd, ed, dbg) ==
    RunFrom(s, td, Universe(s, td), 1, sd, ed, dbg,
            [selected |-> <<>>, stats |-> ZeroStats(s)]).selected

\* C23: the list of signal records a screening run returns is the one the run
\* returns over the same input with debug on, with debug off, and when run
\* again: the counters play no part in the selection.
C23_DebugLeavesSelection ==
    pc = "done" =>
        /\ selected_stocks = RunSelected(strategy, trading_days, start_date, end_date, TRUE)
        /\ selected_stocks = RunSelected(strategy, trading_days, start_date, end_date, FALSE)

\* a finished run with diagnostics on that counted an index short of the last
\* stage and returned a record
C23_Witness ==
    /\ pc = "done"
    /\ debug
    /\ selected_stocks # <<>>
    /\ debug_stats.total_checked > debug_stats.all_passed

\* C29: at the end of a screening run with diagnostics on, all_passed equals
\* the number of signal records returned.
C29_AllPassedEqualsRecords ==
    (pc = "done" /\ debug) => debug_stats.all_passed = Len(selected_stocks)

-----------------------------------------------------------------------------
(* Properties of the RSI recovery condition *)

\* the instrument of the run
Instrument == trading_days["A"]

\* the scenario: the RSI dips to 25, rises to 55 five bars later, and nothing
\* else keeps the rise from passing
DipAndRise(rise) ==
    /\ Instrument.rise = rise
    /\ Instrument.v1 = 25
    /\ Instrument.v2 = 55
    /\ Instrument.blocked = {}
    /\ Instrument.no_touch = {}

SelectedIdx == {selected_stocks[k].signal_index : k \in 1..Len(selected_stocks)}

\* the recovery condition, stated on the RSI values: some bar of the 11 bars
\* ending at i holds the lowest RSI of them, that RSI is at most 40, and the
\* RSI at i is at least 5 above it
Recovered(i) ==
    \E j \in WindowFrom(i, RsiWindow) :
        /\ \A k \in WindowFrom(i, RsiWindow) : RsiAt(Instrument, j) <= RsiAt(Instrument, k)
        /\ RsiAt(Instrument, j) <= 40
        /\ RsiAt(Instrument, i) >= RsiAt(Instrument, j) + 5

\* the indices of the scan range the run can select
Selectable ==
    {i \in SearchStart(strategy, Instrument.len, start_date)
            ..(SearchEnd(Instrument.len, end_date) - 1) :
        /\ i >= MinLookback
        /\ i < RsiLen(Instrument)
        /\ i \notin Instrument.blocked
        /\ i \notin Instrument.no_touch
        /\ Recovered(i)}

-----------------------------------------------------------------------------
(* Further properties of the simulators *)

\* the loop body is about to run on the bar at sim.i
AtBar ==
    /\ InTieredRun
    /\ pc = "bars"
    /\ ~sim.broke
    /\ sim.i < TsLen(Timeseries(sim.code))

C25_BothTiersOnOneBar ==
    (/\ AtBar
     /\ TwoTier
     /\ sim.remaining_position = Full
     /\ ~StopAt(sim.i)
     /\ Tier2At(sim.i)
     /\ SigOf(sim.code).take_profit_2 >= SigOf(sim.code).take_profit_1) =>
        /\ sim'.remaining_position = Flat
        /\ sim'.realized = sim.realized \o
              <<[bar |-> sim.i, halves |-> Half,
                 price |-> SigOf(sim.code).take_profit_1, kind |-> "take_profit_1"],
                [bar |-> sim.i, halves |-> Half,
                 price |-> SigOf(sim.code).take_profit_2, kind |-> "take_profit_2"]>>
        /\ sim'.exit_reason = "take_profit_2"
        /\ sim'.exit_date = DateOf(sim.i)
        /\ sim'.broke

\* C25: in two-tier mode a bar with low > stop_loss and high >= take_profit_2
\* >= take_profit_1, met with the full position, realizes one half at tier 1
\* and the other half at tier 2 on that bar and closes the run with
\* exit_reason 'take_profit_2' and the bar's date as exit_date.
C25_SameBarTiers == [][C25_BothTiersOnOneBar]_vars

\* a closed two-tier run whose two realizations are on one bar
C25_Witness ==
    /\ Settled /\ TwoTier
    /\ sim.exit_reason = "take_profit_2"
    /\ Len(sim.realized) = 2
    /\ sim.realized[1].bar = sim.realized[2].bar
    /\ sim.realized[1].kind = "take_profit_1"
    /\ ~StopAt(sim.realized[1].bar)

\* C30: in the tiered simulators the stop-loss price is never above the entry
\* price, so a run that exits with 'stop_loss' before any tier-1 realization
\* has a return <= 0.
C30_StopLossNotAboveEntry ==
    InTieredRun =>
        /\ SigOf(sim.code).stop_loss <= sim.entry_price
        /\ (/\ sim.exit_reason = "stop_loss"
            /\ \A e \in Events(sim) : e.kind # "take_profit_1")
              => sim.total_profit <= 0

-----------------------------------------------------------------------------
(* Properties of the golden-cross searches *)

\* a golden cross at Python index i of the two lines of the call
CrossAt(i) ==
    /\ i >= 1
    /\ i < Len(args.line1)
    /\ args.line1[i] # None /\ args.line2[i] # None
    /\ args.line1[i + 1] # None /\ args.line2[i + 1] # None
    /\ args.line1[i] <= args.line2[i]
    /\ args.line1[i + 1] > args.line2[i + 1]

\* the bars dated within [start_date, end_date] at which a golden cross occurs
CrossesInWindow ==
    {i \in 1..(Len(args.line1) - 1) :
        /\ args.start_date # None => DateOf(i) >= args.start_date
        /\ args.end_date # None => DateOf(i) <= args.end_date
        /\ CrossAt(i)}

\* C27: _find_golden_cross reports a golden cross whenever one occurs at a bar
\* i >= 1 dated within [start_date, end_date], the bar dated start_date and a
\* one-day window included, and the index reported is the most recent such bar.
C27_CrossInWindowReported ==
    (Called("golden_cross") /\ CrossesInWindow # {}) =>
        ret.index = Max(CrossesInWindow)

\* the indices of [lo, hi) at which a golden cross occurs
CrossesInRange(lo, hi) == {i \in lo..(hi - 1) : CrossAt(i)}

\* C28: _find_golden_cross_in_range returns the greatest index i with
\* start_index <= i < end_index and i >= 1 at which a golden cross occurs, and
\* None iff there is none; with lookback_days = 10 the look-back searches
\* cover the 10 bars macd_index-10 .. macd_index-1.
C28_GreatestCrossInRange ==
    /\ Called("in_range") =>
          ret.index = IF CrossesInRange(args.start_index, args.end_index) = {} THEN None
                      ELSE Max(CrossesInRange(args.start_index, args.end_index))
    /\ Called("lookback") =>
          LET S == CrossesInRange(args.macd_gc_index - args.lookback_days,
                                  args.macd_gc_index)
          IN  ret.index = IF S = {} THEN None ELSE Max(S)

====
